---- MODULE Spec2Model ----
(***************************************************************************)
(* State-machine model of the gtu-learn-ui local-storage stores: the       *)
(* Progress Tracker (useProgressTracking), the Quiz History Store          *)
(* (useQuizHistory), the Notes Store (useNotesManager) and the per-paper   *)
(* Revision Store (useRevisionToggle).  Every hook call site owns one      *)
(* instance of a store (its React state); all instances share the          *)
(* browser's localStorage.                                                 *)
(*                                                                         *)
(* Conventions.  An optional value (a localStorage entry that may be       *)
(* absent, a nullable React state) is a sequence of length 0 or 1.  A      *)
(* JavaScript object / Map keyed by strings is a function whose domain is  *)
(* the set of its keys.  A storage key such as "paper::question" is the    *)
(* sequence of its tokens <<paper, "::", question>>, so that               *)
(* key.includes('::') and the template `default::${key}` are computed.     *)
(* The clock counts half seconds, so Math.round(ms / 1000) rounds.         *)
(***************************************************************************)
EXTENDS Integers, Sequences, FiniteSets, TLC

\* ------------------------------------------------------------------ bounds
MaxTime == 1
MaxCalls == 2
MaxCardCalls == 3
MaxReloadCalls == 3
MaxQuizCalls == 3

Papers == {"A.json", "B.json"}
QuestionIds == {"1_a", "2_b"}
Trackers == {"card1", "card2"}
CardTrackers == {"card1"}
SessionTypes == {"study", "quiz"}
ConfidenceInputs == {4}
MaxAttempts == 2
QuizInstances == {"quizMode", "dashboard"}
QuizLengths == {1, 2}
MaxNoteCalls == 3
NoteInstances == {"card", "sidebar"}
NotePapers == {"default", "A.json"}
NoteTexts == {"foo", "bar", ""}
MaxRevisionCalls == 3
MaxStorageCalls == 3
MaxStatsCalls == 3
MaxQuizModeCalls == 4
MaxSessionCalls == 3
MaxDeckCalls == 4
MaxToggleCalls == 2
MaxCompletionCalls == 3
MaxStudyCalls == 7
MaxWeakAreaCalls == 3
MaxConfidenceCalls == 2
MaxRatingCalls == 3
RatingInstances == {"card1", "card2"}
RatingInputs == {2, 5}
MaxDay == 9
DashboardTrackers == {"card1"}
SleepDays == {1, 7}
RevisionInstances == {"card1", "card2"}

VARIABLES
  now,                \* wall clock, in half seconds
  selectedPaperFile,  \* App state: the paperId prop of every mounted store
  progressStore,      \* localStorage 'progress-tracking-global'
  activeStore,        \* localStorage 'active-study-session'
  cleanupStore,       \* localStorage 'session-cleanup-needed'
  trackerMounted,     \* mounted useProgressTracking instances
  questionProgress,   \* per instance: React state questionProgress
  activeSession,      \* per instance: React state activeSession
  callsLeft,          \* mutating store calls still allowed (model bound)
  quizStore,          \* localStorage 'quiz-history'
  quizMounted,        \* mounted useQuizHistory instances
  attempts,           \* per instance: React state attempts
  nextAttemptId,      \* the next attempt id to be generated
  notesStore,         \* localStorage 'gtu-learn-notes-v1'
  notesMounted,       \* mounted useNotesManager instances
  notes,              \* per instance: React state notes
  revisionStore,      \* per paper: localStorage 'revision-questions-{paper}'
  revisionMounted,    \* mounted useRevisionToggle instances
  revisionQuestions,  \* per instance: React state revisionQuestions
  loaderFilename,     \* useQuestionPaper: the filename prop whose effect has run
  questionPaper,      \* useQuestionPaper state questionPaper
  loading,            \* useQuestionPaper state loading
  error,              \* useQuestionPaper state error
  fetches,            \* filenames whose fetch is in flight
  storageMode,        \* localStorage: "ok", "disabled" (every access throws) or "quota" (setItem throws)
  escaped,            \* effects and handlers an exception has escaped from
  allQuestions,       \* useProgressTracking parameter allQuestions (the dashboard passes the paper's questions)
  ratingStore,        \* per paper: localStorage 'question-ratings-{paper}'
  ratingMounted,      \* mounted useQuestionRatings instances
  ratings,            \* per instance: React state ratings
  serverState,        \* per candidate file: what the server answers to a fetch of it
  aggPc,              \* per computation of useSubjectRevision: the await it is at (stage, index)
  validPaperFiles,    \* per computation: the files discoverPaperFiles has collected
  paperSubjectMap,    \* calculateRevisionCounts: paperSubjectMap
  filenameSubjectMap, \* calculateRevisionCounts: filenameSubjectMap
  subjectRevisionCounts,\* useSubjectRevision state subjectRevisionCounts
  currentSubject,     \* getAllRevisionQuestions: its argument
  allRevisionQuestions,\* getAllRevisionQuestions: allRevisionQuestions
  returnedQuestions,  \* getAllRevisionQuestions: the value its promise resolved with
  currentAttemptId,   \* QuizMode state currentAttemptId
  cleanupAttemptId,   \* QuizMode: the attemptId the mount effect's cleanup closes over
  quizCompleted,      \* QuizMode state quizState.quizCompleted
  pendingEnd,         \* per instance: the endStudySession call quiz mode's setTimeout holds, with the activeSession and paperId its closure saw
  currentQuestionIndex,\* App state currentQuestionIndex (0-based)
  sessionStarted,     \* per question card: QuestionCard state sessionStarted
  savePending,        \* tracker instances whose activeSession changed and whose persistence effect has not run yet
  isAnimating,        \* SwipeableQuestionDisplay state isAnimating
  navTimers,          \* pending 250 ms navigation timers, each with the handler closure it will call
  showPaperSelector,  \* App state showPaperSelector
  quizRatings         \* QuizMode state quizState.ratings (question id to 1-10 rating)

trackerVars == <<selectedPaperFile, progressStore, activeStore, cleanupStore,
                 trackerMounted, questionProgress, activeSession>>

quizVars == <<quizStore, quizMounted, attempts, nextAttemptId>>

notesVars == <<notesStore, notesMounted, notes>>

revisionVars == <<revisionStore, revisionMounted, revisionQuestions>>

loaderVars == <<loaderFilename, questionPaper, loading, error, fetches>>

storageVars == <<storageMode, escaped>>

statsVars == <<allQuestions>>

ratingVars == <<ratingStore, ratingMounted, ratings>>

aggVars == <<serverState, aggPc, validPaperFiles, paperSubjectMap, filenameSubjectMap, subjectRevisionCounts, currentSubject, allRevisionQuestions, returnedQuestions>>

quizModeVars == <<currentAttemptId, cleanupAttemptId, quizCompleted>>

timerVars == <<pendingEnd>>

deckVars == <<currentQuestionIndex, sessionStarted, savePending>>

studyVars == <<isAnimating, navTimers, showPaperSelector>>

quizStateVars == <<quizRatings>>

\* what the operations of one store leave alone
outsideTracker == <<quizVars, notesVars, revisionVars, loaderVars, storageVars, statsVars, ratingVars, aggVars, quizModeVars, timerVars, deckVars, studyVars, quizStateVars>>
outsideQuiz == <<trackerVars, notesVars, revisionVars, loaderVars, storageVars, statsVars, ratingVars, aggVars, quizModeVars, timerVars, deckVars, studyVars, quizStateVars>>
outsideNotes == <<now, trackerVars, quizVars, revisionVars, loaderVars, storageVars, statsVars, ratingVars, aggVars, quizModeVars, timerVars, deckVars, studyVars, quizStateVars>>
outsideRevision == <<now, trackerVars, quizVars, notesVars, loaderVars, storageVars, statsVars, ratingVars, aggVars, quizModeVars, timerVars, deckVars, studyVars, quizStateVars>>
outsideLoader == <<now, trackerVars, quizVars, notesVars, revisionVars, storageVars, statsVars, ratingVars, aggVars, quizModeVars, timerVars, deckVars, studyVars, quizStateVars>>
outsideStorage == <<now, trackerVars, quizVars, notesVars, revisionVars, loaderVars, statsVars, ratingVars, aggVars, quizModeVars, timerVars, deckVars, studyVars, quizStateVars>>
outsideRating == <<now, trackerVars, quizVars, notesVars, revisionVars, loaderVars, storageVars, statsVars, aggVars, quizModeVars, timerVars, deckVars, studyVars, quizStateVars>>
outsideAgg == <<now, trackerVars, quizVars, notesVars, revisionVars, loaderVars, storageVars, statsVars, ratingVars, quizModeVars, timerVars, deckVars, studyVars, quizStateVars>>
outsideQuizMode == <<trackerVars, notesVars, revisionVars, loaderVars, storageVars, statsVars, ratingVars, aggVars, timerVars, deckVars, studyVars, quizStateVars>>
outsideTimer == <<quizVars, notesVars, revisionVars, loaderVars, storageVars, statsVars, ratingVars, aggVars, quizModeVars, deckVars, studyVars, quizStateVars>>
outsideDeck == <<quizVars, notesVars, revisionVars, loaderVars, storageVars, statsVars, ratingVars, aggVars, quizModeVars, timerVars, studyVars, quizStateVars>>
outsideCrossToggle == <<now, trackerVars, quizVars, notesVars, loaderVars, storageVars, statsVars, ratingVars, quizModeVars, timerVars, deckVars, studyVars, quizStateVars>>
outsideQuizState == <<now, selectedPaperFile, activeStore, cleanupStore, trackerMounted, activeSession,
                      quizVars, notesVars, revisionVars, loaderVars, storageVars, statsVars,
                      ratingMounted, ratings, aggVars, quizModeVars, timerVars, deckVars, studyVars>>
outsideStudy == <<now, progressStore, activeStore, cleanupStore, trackerMounted, questionProgress,
                  activeSession, quizVars, notesVars, revisionVars, storageVars, statsVars,
                  ratingVars, aggVars, quizModeVars, timerVars, sessionStarted, savePending,
                  quizStateVars>>

vars == <<now, callsLeft, trackerVars, quizVars, notesVars, revisionVars, loaderVars, storageVars, statsVars, ratingVars, aggVars, quizModeVars, timerVars, deckVars, studyVars, quizStateVars>>

\* ------------------------------------------------------- objects and maps
EmptyMap == <<>>

MapGet(m, k, dflt) == IF k \in DOMAIN m THEN m[k] ELSE dflt

MapSet(m, k, v) == [x \in (DOMAIN m) \cup {k} |-> IF x = k THEN v ELSE m[x]]

MapDelete(m, k) == [x \in (DOMAIN m) \ {k} |-> m[x]]

\* key.includes('::')
IncludesSeparator(key) == \E n \in 1..Len(key) : key[n] = "::"

\* Math.round(n / d) for n >= 0, d > 0 (halves round up)
MathRound(n, d) == (2 * n + d) \div (2 * d)

\* Math.round((end.getTime() - start.getTime()) / 1000), clock in half seconds
DurationSeconds(start, end) == MathRound(end - start, 2)

\* ---- JavaScript numbers: IEEE 754 binary64, non-negative values only.
\* A number is [bits, scale]: bits is its significand as a sequence of binary
\* digits, least significant first, and its value is int(bits) / 2^scale.
SignificandBits == 53

Reverse(s) == [n \in 1..Len(s) |-> s[Len(s) + 1 - n]]

\* the arithmetic below works on groups of digits that fit a machine word
DigitsPerStep == 9
DigitsPerLimb == 20

Min(a, b) == IF a <= b THEN a ELSE b

RECURSIVE ToInt(_)
ToInt(bits) == IF bits = <<>> THEN 0 ELSE Head(bits) + 2 * ToInt(Tail(bits))

\* the n lowest binary digits of v, least significant first
BitsOf(v, n) == [j \in 1..n |-> (v \div 2^(j - 1)) % 2]

\* the number of binary digits of v
BitLength(v) == CHOOSE n \in 0..31 : v < 2^n /\ (n = 0 \/ v >= 2^(n - 1))

AddOne(bits) ==
  IF \A j \in 1..Len(bits) : bits[j] = 1
    THEN [j \in 1..(Len(bits) + 1) |-> IF j = Len(bits) + 1 THEN 1 ELSE 0]
    ELSE LET z == CHOOSE j \in 1..Len(bits) : bits[j] = 0 /\ \A l \in 1..(j - 1) : bits[l] = 1
         IN  [j \in 1..Len(bits) |-> IF j < z THEN 0 ELSE IF j = z THEN 1 ELSE bits[j]]

\* bits * c + carry, a limb at a time
RECURSIVE MulSmall(_, _, _)
MulSmall(bits, c, carry) ==
  IF bits = <<>>
    THEN BitsOf(carry, BitLength(carry))
    ELSE LET n == Min(DigitsPerLimb, Len(bits))
             v == ToInt(SubSeq(bits, 1, n)) * c + carry
         IN  BitsOf(v % 2^n, n) \o MulSmall(SubSeq(bits, n + 1, Len(bits)), c, v \div 2^n)

\* the first n binary digits of r / t after the point (r < t), most significant first
RECURSIVE DivBits(_, _, _)
DivBits(r, t, n) ==
  IF n = 0 THEN <<>>
  ELSE LET m == Min(DigitsPerStep, n)
           v == r * 2^m
       IN  Reverse(BitsOf(v \div t, m)) \o DivBits(v % t, t, n - m)

\* what is left of r / t after those n digits
RECURSIVE DivRem(_, _, _)
DivRem(r, t, n) ==
  IF n = 0 THEN r
  ELSE LET m == Min(DigitsPerStep, n)
       IN  DivRem((r * 2^m) % t, t, n - m)

\* the position of the first non-zero binary digit of e / t (0 < e < t)
RECURSIVE Exponent(_, _)
Exponent(e, t) == IF 2 * e >= t THEN 1 ELSE 1 + Exponent(2 * e, t)

\* drop the lowest digits, rounding to nearest, ties to even; sticky says that
\* digits below the ones given are not all zero
RoundNearestEven(bits, drop, sticky) ==
  IF drop = 0 THEN bits
  ELSE LET kept == SubSeq(bits, drop + 1, Len(bits))
           guard == bits[drop]
           below == sticky \/ \E n \in 1..(drop - 1) : bits[n] = 1
           up == guard = 1 /\ (below \/ kept[1] = 1)
       IN  IF up THEN AddOne(kept) ELSE kept

\* e / t for integers 0 <= e <= t, t > 0
DivideDouble(e, t) ==
  IF e = 0 THEN [bits |-> <<>>, scale |-> 0]
  ELSE IF e = t THEN [bits |-> <<1>>, scale |-> 0]
  ELSE LET k == Exponent(e, t)
           n == k + SignificandBits
           digits == Reverse(SubSeq(DivBits(e, t, n), k, n))
       IN  [bits |-> RoundNearestEven(digits, 1, DivRem(e, t, n) # 0), scale |-> n - 1]

\* x * c for a small positive integer c
TimesDouble(x, c) ==
  LET product == MulSmall(x.bits, c, 0)
      drop == IF Len(product) > SignificandBits THEN Len(product) - SignificandBits ELSE 0
  IN  [bits |-> RoundNearestEven(product, drop, FALSE), scale |-> x.scale - drop]

\* Math.round(x): the nearest integer, halves towards +Infinity (scale >= 0)
MathRoundDouble(x) ==
  LET len == Len(x.bits)
      whole == IF x.scale < len THEN ToInt(SubSeq(x.bits, x.scale + 1, len)) ELSE 0
      half == IF x.scale >= 1 /\ x.scale <= len THEN x.bits[x.scale] ELSE 0
  IN  whole + half

\* x > 0.5
GreaterThanHalfDouble(x) ==
  LET len == Len(x.bits)
  IN  \/ \E j \in (x.scale + 1)..len : x.bits[j] = 1
      \/ /\ x.scale >= 1 /\ x.scale <= len /\ x.bits[x.scale] = 1
         /\ \E j \in 1..(x.scale - 1) : x.bits[j] = 1

\* ------------------------------------------------------- Progress Tracker
NoDate == -1

defaultQuestionProgress ==
  [completed |-> FALSE, completedAt |-> NoDate, timeSpent |-> 0,
   reviewCount |-> 0, lastStudied |-> NoDate, confidenceLevel |-> 0,
   studySessions |-> <<>>]

\* { questionId, paperId, ...defaultQuestionProgress }
NewProgress(questionId, paperId) ==
  [questionId |-> questionId, paperId |-> paperId,
   completed |-> defaultQuestionProgress.completed,
   completedAt |-> defaultQuestionProgress.completedAt,
   timeSpent |-> defaultQuestionProgress.timeSpent,
   reviewCount |-> defaultQuestionProgress.reviewCount,
   lastStudied |-> defaultQuestionProgress.lastStudied,
   confidenceLevel |-> defaultQuestionProgress.confidenceLevel,
   studySessions |-> defaultQuestionProgress.studySessions]

\* `${currentPaperId || paperId}::${questionId}`
createGlobalKey(questionId, paperId) == <<paperId, "::", questionId>>

\* The load effect's key handling: a key without '::' is migrated under the
\* paper 'default'; otherwise paperId and questionId are split off the key.
LoadedKey(key) ==
  IF IncludesSeparator(key) THEN key ELSE <<"default", "::">> \o key

LoadedRecord(key, progress) ==
  IF IncludesSeparator(key)
    THEN [progress EXCEPT !.paperId = key[1], !.questionId = key[3]]
    ELSE [progress EXCEPT !.paperId = "default", !.questionId = key[1]]

LoadProgress(stored) ==
  [g \in {LoadedKey(k) : k \in DOMAIN stored} |->
     LET k == CHOOSE k \in DOMAIN stored : LoadedKey(k) = g
     IN  LoadedRecord(k, stored[k])]

\* The interrupted session of the cleanup marker, closed at the reload time
\* and added to its owning record.
FoldInterrupted(progressMap, session, endTime) ==
  LET globalKey == createGlobalKey(session.questionId, session.paperId)
      current == MapGet(progressMap, globalKey,
                        NewProgress(session.questionId, session.paperId))
      duration == DurationSeconds(session.startTime, endTime)
      newSession == [startTime |-> session.startTime, endTime |-> endTime,
                     duration |-> duration, sessionType |-> session.sessionType]
  IN  MapSet(progressMap, globalKey,
             [current EXCEPT !.timeSpent = current.timeSpent + duration,
                             !.studySessions = Append(current.studySessions, newSession)])

\* getQuestionProgress of instance i
getQuestionProgress(i, questionId) ==
  MapGet(questionProgress[i], createGlobalKey(questionId, selectedPaperFile),
         NewProgress(questionId, selectedPaperFile))

\* A set S of tracker instances mounts in one commit; `first` is the one whose
\* effects run first.  Per instance, in order: the load effect (with the
\* session cleanup), the active-session load effect, the active-session save
\* effect (activeSession is still null: removeItem); after the re-render the
\* save effect of the instance that restored a session writes it back.
TrackerMount(S, first) ==
  /\ S # {} /\ S \cap trackerMounted = {} /\ first \in S
  /\ LET hasStored == progressStore # <<>>
         progressMap == IF hasStored THEN LoadProgress(progressStore[1]) ELSE EmptyMap
         doCleanup == hasStored /\ cleanupStore # <<>>
         cleaned == IF doCleanup
                      THEN FoldInterrupted(progressMap, cleanupStore[1], now)
                      ELSE progressMap
     IN  /\ doCleanup => callsLeft > 0
         /\ callsLeft' = IF doCleanup THEN callsLeft - 1 ELSE callsLeft
         /\ questionProgress' = [t \in Trackers |-> IF t \in S THEN cleaned ELSE questionProgress[t]]
         /\ progressStore' = IF doCleanup THEN <<cleaned>> ELSE progressStore
         /\ cleanupStore' = IF doCleanup THEN <<>> ELSE cleanupStore
  /\ activeSession' = [t \in Trackers |-> IF t = first THEN activeStore
                                          ELSE IF t \in S THEN <<>> ELSE activeSession[t]]
  /\ trackerMounted' = trackerMounted \cup S
  /\ UNCHANGED <<now, selectedPaperFile, activeStore, outsideTracker>>

\* A component holding a tracker unmounts: its React state is dropped; the
\* hook's effect cleanups only remove the beforeunload listener.
TrackerUnmount(i) ==
  /\ i \in trackerMounted
  /\ trackerMounted' = trackerMounted \ {i}
  /\ questionProgress' = [questionProgress EXCEPT ![i] = EmptyMap]
  /\ activeSession' = [activeSession EXCEPT ![i] = <<>>]
  /\ UNCHANGED <<now, selectedPaperFile, progressStore, activeStore, cleanupStore, callsLeft, outsideTracker>>

\* The page unloads: every mounted instance's handleBeforeUnload copies the
\* stored active session into the cleanup marker; all React state is lost.
PageUnload ==
  /\ trackerMounted # {}
  /\ cleanupStore' = IF activeStore # <<>> THEN activeStore ELSE cleanupStore
  /\ trackerMounted' = {}
  /\ questionProgress' = [t \in Trackers |-> EmptyMap]
  /\ activeSession' = [t \in Trackers |-> <<>>]
  /\ UNCHANGED <<now, selectedPaperFile, progressStore, activeStore, callsLeft, outsideTracker>>

\* saveProgress(newProgress)
saveProgress(newProgress) == progressStore' = <<newProgress>>

\* mutant of StartedRecord: the record is rebuilt from the defaults
StartedRecord_FromDefaults(current, startTime, questionId, paperId) ==
  [NewProgress(questionId, paperId) EXCEPT
     !.reviewCount = current.reviewCount + 1,
     !.lastStudied = startTime]

\* { ...current, reviewCount: current.reviewCount + 1, lastStudied: startTime,
\*   questionId, paperId }
StartedRecord(current, startTime, questionId, paperId) ==
  [current EXCEPT !.reviewCount = current.reviewCount + 1,
                  !.lastStudied = startTime,
                  !.questionId = questionId,
                  !.paperId = paperId]

StartStudySession(i, questionId, sessionType) ==
  /\ i \in trackerMounted
  /\ LET paperId == selectedPaperFile
         startTime == now
         globalKey == createGlobalKey(questionId, paperId)
         prev == questionProgress[i]
         current == MapGet(prev, globalKey, NewProgress(questionId, paperId))
         updated == StartedRecord(current, startTime, questionId, paperId)
         newProgress == MapSet(prev, globalKey, updated)
         session == [questionId |-> questionId, paperId |-> paperId,
                     startTime |-> startTime, sessionType |-> sessionType]
     IN  /\ callsLeft > 0
         /\ callsLeft' = callsLeft - 1
         /\ activeSession' = [activeSession EXCEPT ![i] = <<session>>]
         /\ activeStore' = <<session>>
         /\ questionProgress' = [questionProgress EXCEPT ![i] = newProgress]
         /\ saveProgress(newProgress)
  /\ UNCHANGED <<now, selectedPaperFile, cleanupStore, trackerMounted, outsideTracker>>

\* mutant of EndStudySessionMatches: the paper of the open session is not compared
EndStudySessionMatches_AnyPaper(i, questionId) ==
  /\ activeSession[i] # <<>>
  /\ activeSession[i][1].questionId = questionId

\* activeSession && activeSession.questionId === questionId
\*   && activeSession.paperId === paperId
EndStudySessionMatches(i, questionId) ==
  /\ activeSession[i] # <<>>
  /\ activeSession[i][1].questionId = questionId
  /\ activeSession[i][1].paperId = selectedPaperFile

\* { ...current, timeSpent: current.timeSpent + duration,
\*   studySessions: [...current.studySessions, newSession], questionId, paperId }
EndedRecord(current, newSession, questionId, paperId) ==
  [current EXCEPT !.timeSpent = current.timeSpent + newSession.duration,
                  !.studySessions = Append(current.studySessions, newSession),
                  !.questionId = questionId,
                  !.paperId = paperId]

EndStudySession(i, questionId) ==
  /\ i \in trackerMounted
  /\ IF EndStudySessionMatches(i, questionId)
       THEN LET paperId == selectedPaperFile
                open == activeSession[i][1]
                endTime == now
                duration == DurationSeconds(open.startTime, endTime)
                newSession == [startTime |-> open.startTime, endTime |-> endTime,
                               duration |-> duration, sessionType |-> open.sessionType]
                globalKey == createGlobalKey(questionId, paperId)
                prev == questionProgress[i]
                current == MapGet(prev, globalKey, NewProgress(questionId, paperId))
                updated == EndedRecord(current, newSession, questionId, paperId)
                newProgress == MapSet(prev, globalKey, updated)
            IN  /\ callsLeft > 0
                /\ callsLeft' = callsLeft - 1
                /\ questionProgress' = [questionProgress EXCEPT ![i] = newProgress]
                /\ saveProgress(newProgress)
                /\ activeSession' = [activeSession EXCEPT ![i] = <<>>]
                /\ activeStore' = <<>>
       ELSE UNCHANGED <<questionProgress, progressStore, activeSession, activeStore, callsLeft>>
  /\ UNCHANGED <<now, selectedPaperFile, cleanupStore, trackerMounted, outsideTracker>>

ObjectSpread_OntoDefaults(current, updates) ==
  [f \in (DOMAIN current) \cup (DOMAIN updates) |->
     IF f \in DOMAIN updates THEN updates[f]
     ELSE IF f \in DOMAIN defaultQuestionProgress THEN defaultQuestionProgress[f]
     ELSE current[f]]

\* { ...current, ...updates }: the fields of updates replace those of current
ObjectSpread(current, updates) ==
  [f \in (DOMAIN current) \cup (DOMAIN updates) |->
     IF f \in DOMAIN updates THEN updates[f] ELSE current[f]]

\* updateQuestionProgress(questionId, updates) of instance i; updates is a
\* partial record
updateQuestionProgress(i, questionId, updates) ==
  /\ i \in trackerMounted
  /\ LET paperId == selectedPaperFile
         globalKey == createGlobalKey(questionId, paperId)
         prev == questionProgress[i]
         current == MapGet(prev, globalKey, NewProgress(questionId, paperId))
         updated == ObjectSpread(ObjectSpread(current, updates),
                                 [questionId |-> questionId, paperId |-> paperId])
         newProgress == MapSet(prev, globalKey, updated)
     IN  /\ callsLeft > 0
         /\ callsLeft' = callsLeft - 1
         /\ questionProgress' = [questionProgress EXCEPT ![i] = newProgress]
         /\ saveProgress(newProgress)
  /\ UNCHANGED <<now, selectedPaperFile, activeStore, cleanupStore, trackerMounted, activeSession,
                 outsideTracker>>

MarkCompleted(i, questionId) ==
  updateQuestionProgress(i, questionId, [completed |-> TRUE, completedAt |-> now])

MarkIncomplete(i, questionId) ==
  updateQuestionProgress(i, questionId, [completed |-> FALSE, completedAt |-> NoDate])

UpdateConfidence(i, questionId, confidence) ==
  updateQuestionProgress(i, questionId, [confidenceLevel |-> confidence])

Tick ==
  /\ now < MaxTime
  /\ now' = now + 1
  /\ UNCHANGED <<callsLeft, trackerVars, quizVars, notesVars, revisionVars, loaderVars, storageVars, statsVars, ratingVars, aggVars, quizModeVars, timerVars, deckVars, studyVars, quizStateVars>>

TrackerInit ==
  /\ selectedPaperFile = "A.json"
  /\ progressStore = <<>>
  /\ activeStore = <<>>
  /\ cleanupStore = <<>>
  /\ trackerMounted = {}
  /\ questionProgress = [t \in Trackers |-> EmptyMap]
  /\ activeSession = [t \in Trackers |-> <<>>]

\* ---------------------------- Progress Tracker: quiz mode's short session
\* QuizMode.handleNextQuestion with the answer shown, on the tracker instance
\* i of QuizMode: markCompleted(questionId), startStudySession(questionId,
\* 'quiz') and setTimeout(() => endStudySession(questionId), 100).  The timer
\* holds the endStudySession of the render the handler belongs to, whose
\* activeSession and paperId are the ones of that render.
QuizNext(i, questionId) ==
  /\ i \in trackerMounted
  /\ pendingEnd[i] = <<>>
  /\ LET paperId == selectedPaperFile
         startTime == now
         globalKey == createGlobalKey(questionId, paperId)
         prev == questionProgress[i]
         current == MapGet(prev, globalKey, NewProgress(questionId, paperId))
         completed == ObjectSpread(ObjectSpread(current, [completed |-> TRUE, completedAt |-> now]),
                                   [questionId |-> questionId, paperId |-> paperId])
         updated == StartedRecord(completed, startTime, questionId, paperId)
         newProgress == MapSet(prev, globalKey, updated)
         session == [questionId |-> questionId, paperId |-> paperId,
                     startTime |-> startTime, sessionType |-> "quiz"]
     IN  /\ callsLeft > 0
         /\ callsLeft' = callsLeft - 1
         /\ activeSession' = [activeSession EXCEPT ![i] = <<session>>]
         /\ activeStore' = <<session>>
         /\ questionProgress' = [questionProgress EXCEPT ![i] = newProgress]
         /\ saveProgress(newProgress)
         /\ pendingEnd' = [pendingEnd EXCEPT ![i] =
                             <<[questionId |-> questionId, paperId |-> paperId,
                                activeSession |-> activeSession[i]]>>]
  /\ UNCHANGED <<now, selectedPaperFile, cleanupStore, trackerMounted, outsideTimer>>

\* The timer fires: endStudySession(questionId) of the render that set it
QuizTimerFires(i) ==
  /\ i \in trackerMounted
  /\ pendingEnd[i] # <<>>
  /\ LET call == pendingEnd[i][1]
         questionId == call.questionId
         paperId == call.paperId
     IN  IF /\ call.activeSession # <<>>
            /\ call.activeSession[1].questionId = questionId
            /\ call.activeSession[1].paperId = paperId
           THEN LET open == call.activeSession[1]
                    endTime == now
                    duration == DurationSeconds(open.startTime, endTime)
                    newSession == [startTime |-> open.startTime, endTime |-> endTime,
                                   duration |-> duration, sessionType |-> open.sessionType]
                    globalKey == createGlobalKey(questionId, paperId)
                    prev == questionProgress[i]
                    current == MapGet(prev, globalKey, NewProgress(questionId, paperId))
                    updated == EndedRecord(current, newSession, questionId, paperId)
                    newProgress == MapSet(prev, globalKey, updated)
                IN  /\ questionProgress' = [questionProgress EXCEPT ![i] = newProgress]
                    /\ saveProgress(newProgress)
                    /\ activeSession' = [activeSession EXCEPT ![i] = <<>>]
                    /\ activeStore' = <<>>
           ELSE UNCHANGED <<questionProgress, progressStore, activeSession, activeStore>>
  /\ pendingEnd' = [pendingEnd EXCEPT ![i] = <<>>]
  /\ UNCHANGED <<now, callsLeft, selectedPaperFile, cleanupStore, trackerMounted, outsideTimer>>

TimerIdle == pendingEnd = [t \in Trackers |-> <<>>]

\* ------------------------------ Progress Tracker: the visible question cards
\* SwipeableQuestionDisplay renders one QuestionCard, with its own tracker
\* instance, per question within two places of the current one, in the order
\* of the questions; React runs the effects of sibling components in that
\* order.  The paper shown has the two questions of QuestionIds.
DeckCards == <<"card1", "card2">>
DeckQuestions == <<"1_a", "2_b">>

CardIndex(i) == CHOOSE k \in 1..Len(DeckCards) : DeckCards[k] = i

\* endStudySession(questionId) as called by the cleanup of a card's session
\* effect: the record of the card's tracker after the call, given the
\* activeSession its closure holds
EndedProgress(prev, open, questionId, paperId, endTime) ==
  LET newSession == [startTime |-> open.startTime, endTime |-> endTime,
                     duration |-> DurationSeconds(open.startTime, endTime),
                     sessionType |-> open.sessionType]
      globalKey == createGlobalKey(questionId, paperId)
      current == MapGet(prev, globalKey, NewProgress(questionId, paperId))
  IN  MapSet(prev, globalKey, EndedRecord(current, newSession, questionId, paperId))

\* startStudySession(questionId, 'study') as called by a card's session effect
StartedProgress(prev, questionId, paperId, startTime) ==
  LET globalKey == createGlobalKey(questionId, paperId)
      current == MapGet(prev, globalKey, NewProgress(questionId, paperId))
  IN  MapSet(prev, globalKey, StartedRecord(current, startTime, questionId, paperId))

\* The study view mounts.  Every card's load effects run, its persistence
\* effect removes the stored session (activeSession is still null), and the
\* session effect of the active card calls startStudySession.
DeckMount ==
  /\ trackerMounted = {}
  /\ callsLeft > 0 /\ callsLeft' = callsLeft - 1
  /\ LET hasStored == progressStore # <<>>
         progressMap == IF hasStored THEN LoadProgress(progressStore[1]) ELSE EmptyMap
         doCleanup == hasStored /\ cleanupStore # <<>>
         cleaned == IF doCleanup
                      THEN FoldInterrupted(progressMap, cleanupStore[1], now)
                      ELSE progressMap
         active == DeckCards[1]
         questionId == DeckQuestions[1]
         started == StartedProgress(cleaned, questionId, selectedPaperFile, now)
         session == [questionId |-> questionId, paperId |-> selectedPaperFile,
                     startTime |-> now, sessionType |-> "study"]
     IN  /\ questionProgress' = [t \in Trackers |-> IF t = active THEN started ELSE cleaned]
         /\ saveProgress(started)
         /\ cleanupStore' = IF doCleanup THEN <<>> ELSE cleanupStore
         /\ activeSession' = [t \in Trackers |-> IF t = active THEN <<session>> ELSE <<>>]
         /\ sessionStarted' = [t \in Trackers |-> t = active]
         /\ savePending' = {active}
  /\ activeStore' = <<>>
  /\ trackerMounted' = Trackers
  /\ currentQuestionIndex' = 0
  /\ UNCHANGED <<now, selectedPaperFile, outsideDeck>>

\* App.handleNext / handlePrevious take effect (delta is 1 or -1).  In the
\* commit the cleanup of the session effect of the card that was active ends
\* its session, and the session effect of the card that becomes active starts
\* one; in the following commit the cleanup of the former card's effect, which
\* still holds sessionStarted = true and the ended session, runs
\* endStudySession again.
DeckNavigate(delta) ==
  /\ trackerMounted = Trackers
  /\ savePending = {}
  /\ currentQuestionIndex + delta \in 0..(Len(DeckQuestions) - 1)
  /\ callsLeft > 0 /\ callsLeft' = callsLeft - 1
  /\ currentQuestionIndex' = currentQuestionIndex + delta
  /\ LET old == DeckCards[currentQuestionIndex + 1]
         new == DeckCards[currentQuestionIndex' + 1]
         oldQuestion == DeckQuestions[currentQuestionIndex + 1]
         newQuestion == DeckQuestions[currentQuestionIndex' + 1]
         paperId == selectedPaperFile
         ends == /\ sessionStarted[old]
                 /\ EndStudySessionMatches(old, oldQuestion)
         endedOnce == IF ends
                        THEN EndedProgress(questionProgress[old], activeSession[old][1],
                                           oldQuestion, paperId, now)
                        ELSE questionProgress[old]
         endedTwice == IF ends
                         THEN EndedProgress(endedOnce, activeSession[old][1],
                                            oldQuestion, paperId, now)
                         ELSE endedOnce
         starts == ~sessionStarted[new]
         started == IF starts
                      THEN StartedProgress(questionProgress[new], newQuestion, paperId, now)
                      ELSE questionProgress[new]
         session == [questionId |-> newQuestion, paperId |-> paperId,
                     startTime |-> now, sessionType |-> "study"]
     IN  /\ questionProgress' = [questionProgress EXCEPT ![old] = endedTwice, ![new] = started]
         /\ progressStore' = IF ends THEN <<endedTwice>>
                             ELSE IF starts THEN <<started>> ELSE progressStore
         /\ activeSession' = [activeSession EXCEPT
                                ![old] = IF ends THEN <<>> ELSE @,
                                ![new] = IF starts THEN <<session>> ELSE @]
         /\ sessionStarted' = [sessionStarted EXCEPT
                                 ![old] = IF sessionStarted[old] THEN FALSE ELSE @,
                                 ![new] = TRUE]
         /\ savePending' = {t \in {old, new} : activeSession'[t] # activeSession[t]}
  /\ UNCHANGED <<now, selectedPaperFile, activeStore, cleanupStore, trackerMounted, outsideDeck>>

\* The persistence effect of instance i runs: setItem(activeSession) or
\* removeItem.  The effects of one commit run in the order of the cards.
SaveEffect(i) ==
  /\ i \in savePending
  /\ \A t \in savePending : CardIndex(i) <= CardIndex(t)
  /\ activeStore' = activeSession[i]
  /\ savePending' = savePending \ {i}
  /\ UNCHANGED <<now, callsLeft, selectedPaperFile, progressStore, cleanupStore, trackerMounted,
                 questionProgress, activeSession, currentQuestionIndex, sessionStarted, outsideDeck>>

\* The page unloads while the cards are shown
DeckPageUnload ==
  /\ trackerMounted # {}
  /\ savePending = {}
  /\ cleanupStore' = IF activeStore # <<>> THEN activeStore ELSE cleanupStore
  /\ trackerMounted' = {}
  /\ questionProgress' = [t \in Trackers |-> EmptyMap]
  /\ activeSession' = [t \in Trackers |-> <<>>]
  /\ sessionStarted' = [t \in Trackers |-> FALSE]
  /\ currentQuestionIndex' = 0
  /\ UNCHANGED <<now, callsLeft, selectedPaperFile, progressStore, activeStore, savePending, outsideDeck>>

DeckIdle ==
  /\ currentQuestionIndex = 0
  /\ sessionStarted = [t \in Trackers |-> FALSE]
  /\ savePending = {}

\* ------------------------------------- Progress Tracker: derived statistics
\* 24 * 60 * 60 * 1000 ms, in half seconds
HalfSecondsPerDay == 172800

\* d.setHours(0, 0, 0, 0); d.getTime()
DayStart(t) == t - (t % HalfSecondsPerDay)

\* a question of the paper: the fields the statistics read
Question(question_no, sub_question_no, marks) ==
  [question_no |-> question_no, sub_question_no |-> sub_question_no, marks |-> marks]

\* `${question.question_no}_${question.sub_question_no}`
QuestionIdOf(question) == question.question_no \o "_" \o question.sub_question_no

MapValues(m) == {m[k] : k \in DOMAIN m}

\* the forEach body of calculateExamReadiness: the score of one question
ReadinessScore(i, question) ==
  LET progress == getQuestionProgress(i, QuestionIdOf(question))
      marks == question.marks
  IN  (IF progress.completed THEN marks ELSE 0)
      + (IF progress.confidenceLevel >= 4 THEN marks ELSE 0)
      + (IF progress.lastStudied # NoDate /\ now - progress.lastStudied < 7 * HalfSecondsPerDay
           THEN marks ELSE 0)

RECURSIVE TotalScore(_, _)
TotalScore(i, questions) ==
  IF questions = <<>> THEN 0
  ELSE ReadinessScore(i, Head(questions)) + TotalScore(i, Tail(questions))

RECURSIVE MaxScore(_)
MaxScore(questions) ==
  IF questions = <<>> THEN 0
  ELSE Head(questions).marks * 3 + MaxScore(Tail(questions))

\* Math.round((totalScore / maxScore) * 100), for positive marks
calculateExamReadiness(i) ==
  IF Len(allQuestions) = 0 THEN 0
  ELSE MathRoundDouble(TimesDouble(DivideDouble(TotalScore(i, allQuestions),
                                                MaxScore(allQuestions)), 100))

\* .sort((a, b) => b - a) of the unique dates
RECURSIVE SortDescending(_)
SortDescending(S) ==
  IF S = {} THEN <<>>
  ELSE LET m == CHOOSE x \in S : \A y \in S : y <= x
       IN  <<m>> \o SortDescending(S \ {m})

\* the for loop of calculateStreak from index n on: the days it adds
RECURSIVE StreakLoop(_, _)
StreakLoop(studyDates, n) ==
  IF n > Len(studyDates) THEN 0
  ELSE IF studyDates[n - 1] - studyDates[n] = HalfSecondsPerDay
         THEN 1 + StreakLoop(studyDates, n + 1)
         ELSE 0

\* calculateStreak over the records of every paper
calculateStreak(i) ==
  LET studied == {p \in MapValues(questionProgress[i]) : p.lastStudied # NoDate}
      studyDates == SortDescending({DayStart(p.lastStudied) : p \in studied})
      today == DayStart(now)
      yesterday == today - HalfSecondsPerDay
  IN  IF Len(studyDates) = 0 THEN 0
      ELSE IF studyDates[1] # today /\ studyDates[1] # yesterday THEN 0
      ELSE 1 + StreakLoop(studyDates, 2)

\* allProgressValues.filter(p => p.paperId === paperId)
currentPaperProgress(i) ==
  {p \in MapValues(questionProgress[i]) : p.paperId = selectedPaperFile}

\* stats.totalQuestions: allQuestions.length
statsTotalQuestions == Len(allQuestions)

\* stats.completedQuestions: currentPaperProgress.filter(p => p.completed).length
statsCompletedQuestions(i) == Cardinality({p \in currentPaperProgress(i) : p.completed})

\* the question ids a quiz in subject-revision mode presents: those of the
\* papers of the subject, which need not be ids of the current paper
RevisionQuizQuestionIds == QuestionIds \cup {"3_a"}

\* time passes while nothing is called
TimePasses(days) ==
  /\ DayStart(now) + days * HalfSecondsPerDay <= MaxDay * HalfSecondsPerDay
  /\ now' = now + days * HalfSecondsPerDay
  /\ UNCHANGED <<callsLeft, trackerVars, quizVars, notesVars, revisionVars, loaderVars, storageVars, statsVars, ratingVars, aggVars, quizModeVars, timerVars, deckVars, studyVars, quizStateVars>>

\* question lists the dashboard passes: none, two questions, eight questions
QuestionLists ==
  { <<>>,
    <<Question("1", "a", 7), Question("2", "b", 3)>>,
    <<Question("1", "a", 7), Question("1", "b", 7), Question("2", "a", 7), Question("2", "b", 3),
      Question("3", "a", 7), Question("3", "b", 3), Question("4", "a", 3), Question("4", "b", 3)>> }

\* the instants of the days before the first state: the third hour of day n
EarlierDay(n) == n * HalfSecondsPerDay + 21600

\* the record of a question studied at time t for one second (startStudySession,
\* then endStudySession)
StudiedAt(current, questionId, paperId, t) ==
  EndedRecord(StartedRecord(current, t, questionId, paperId),
              [startTime |-> t, endTime |-> t + 2, duration |-> DurationSeconds(t, t + 2),
               sessionType |-> "study"],
              questionId, paperId)

\* ... then marked completed and given confidence 4
PreparedAt(current, questionId, paperId, t) ==
  ObjectSpread(StudiedAt(current, questionId, paperId, t),
               [completed |-> TRUE, completedAt |-> t + 2, confidenceLevel |-> 4])

StoredMap(records) ==
  [g \in {createGlobalKey(r.questionId, r.paperId) : r \in records} |->
     CHOOSE r \in records : createGlobalKey(r.questionId, r.paperId) = g]

\* 'progress-tracking-global' as earlier visits left it
InitialStatsStores ==
  LET P == "A.json"
      New(q) == NewProgress(q, P)
  IN  { <<>>,
        \* one question studied the day before yesterday and yesterday
        <<StoredMap({StudiedAt(StudiedAt(New("1_a"), "1_a", P, EarlierDay(0)),
                               "1_a", P, EarlierDay(1))})>>,
        \* one question studied the day before yesterday, the other yesterday
        <<StoredMap({StudiedAt(New("1_a"), "1_a", P, EarlierDay(0)),
                     StudiedAt(New("2_b"), "2_b", P, EarlierDay(1))})>>,
        \* both questions of the short list studied, completed, confidence 4
        <<StoredMap({PreparedAt(New("1_a"), "1_a", P, EarlierDay(1)),
                     PreparedAt(New("2_b"), "2_b", P, EarlierDay(1))})>>,
        \* three 7-mark questions prepared; a 3-mark question completed with
        \* confidence 4 but never studied
        <<StoredMap({PreparedAt(New("1_a"), "1_a", P, EarlierDay(0)),
                     PreparedAt(New("1_b"), "1_b", P, EarlierDay(1)),
                     PreparedAt(New("2_a"), "2_a", P, EarlierDay(1)),
                     ObjectSpread(New("2_b"), [completed |-> TRUE, completedAt |-> EarlierDay(1),
                                               confidenceLevel |-> 4])})>> }

StatsInit ==
  /\ now = EarlierDay(2)
  /\ selectedPaperFile = "A.json"
  /\ progressStore \in InitialStatsStores
  /\ activeStore = <<>>
  /\ cleanupStore = <<>>
  /\ trackerMounted = {}
  /\ questionProgress = [t \in Trackers |-> EmptyMap]
  /\ activeSession = [t \in Trackers |-> <<>>]
  /\ allQuestions \in QuestionLists

StatsIdle == allQuestions = <<>>

\* ----------------------------------------------------- Quiz History Store
\* QuizQuestionResult lists handed to endQuizAttempt (marks and correctness;
\* the other fields are carried along unread)
Result(marks, isCorrect) == [marks |-> marks, isCorrect |-> isCorrect]

ResultInputs ==
  { <<>>,
    <<Result(5, TRUE), Result(5, FALSE)>>,
    <<Result(3, FALSE)>>,
    <<Result(7, TRUE), Result(7, TRUE), Result(7, FALSE), Result(7, FALSE),
      Result(3, TRUE), Result(3, TRUE), Result(3, TRUE), Result(3, FALSE)>> }

\* mutant of isInvalidAttempt: the duration is not looked at
isInvalidAttempt_IgnoreDuration(attempt) ==
  /\ Len(attempt.questions) = 0
  /\ attempt.correctAnswers = 0
  /\ attempt.score = 0

isInvalidAttempt(attempt) ==
  /\ attempt.duration = 0
  /\ Len(attempt.questions) = 0
  /\ attempt.correctAnswers = 0
  /\ attempt.score = 0

\* list.filter(attempt => !isInvalidAttempt(attempt))
ValidAttempts(list) == SelectSeq(list, LAMBDA a : ~isInvalidAttempt(a))

\* mutant of saveAttempts: the list is written as it is
saveAttempts_Unfiltered(newAttempts) == quizStore' = <<newAttempts>>

\* mutant of saveAttempts: only the attempts that are shown are written
saveAttempts_VisibleOnly(newAttempts) ==
  quizStore' = <<SelectSeq(ValidAttempts(newAttempts), LAMBDA a : ~a.isHidden)>>

saveAttempts(newAttempts) == quizStore' = <<ValidAttempts(newAttempts)>>

\* mutant of NewAttempt: the attempt starts hidden
NewAttempt_Hidden(attemptId, paperId, startTime, totalQuestions) ==
  [id |-> attemptId, paperId |-> paperId, startTime |-> startTime,
   endTime |-> startTime, duration |-> 0, totalQuestions |-> totalQuestions,
   correctAnswers |-> 0, score |-> 0, questions |-> <<>>, isHidden |-> TRUE]

NewAttempt(attemptId, paperId, startTime, totalQuestions) ==
  [id |-> attemptId, paperId |-> paperId, startTime |-> startTime,
   endTime |-> startTime, duration |-> 0, totalQuestions |-> totalQuestions,
   correctAnswers |-> 0, score |-> 0, questions |-> <<>>, isHidden |-> FALSE]

RECURSIVE SumMarks(_)
SumMarks(results) ==
  IF results = <<>> THEN 0
  ELSE Head(results).marks + SumMarks(Tail(results))

CorrectResults(results) == SelectSeq(results, LAMBDA r : r.isCorrect)

\* totalMarks > 0 ? Math.round((earnedMarks / totalMarks) * 100) : 0
QuizScore(results) ==
  LET totalMarks == SumMarks(results)
      earnedMarks == SumMarks(CorrectResults(results))
  IN  IF totalMarks > 0
        THEN MathRoundDouble(TimesDouble(DivideDouble(earnedMarks, totalMarks), 100))
        ELSE 0

FinishedAttempt(attempt, endTime, results) ==
  [attempt EXCEPT !.endTime = endTime,
                  !.duration = DurationSeconds(attempt.startTime, endTime),
                  !.correctAnswers = Len(CorrectResults(results)),
                  !.score = QuizScore(results),
                  !.questions = results]

MapAttempts(list, F(_)) == [n \in 1..Len(list) |-> F(list[n])]

AttemptIds(list) == {list[n].id : n \in 1..Len(list)}

\* attempts.filter(a => !a.isHidden)
visibleAttempts(h) == SelectSeq(attempts[h], LAMBDA a : ~a.isHidden)

\* The load effect: parse, drop invalid attempts, rewrite storage when any
\* was dropped.
QuizMount(h) ==
  /\ h \notin quizMounted
  /\ quizMounted' = quizMounted \cup {h}
  /\ IF quizStore # <<>>
       THEN LET parsedAttempts == quizStore[1]
                validAttempts == ValidAttempts(parsedAttempts)
            IN  /\ quizStore' = IF Len(validAttempts) # Len(parsedAttempts)
                                  THEN <<validAttempts>> ELSE quizStore
                /\ attempts' = [attempts EXCEPT ![h] = validAttempts]
       ELSE UNCHANGED <<quizStore, attempts>>
  /\ UNCHANGED <<now, callsLeft, nextAttemptId, outsideQuiz>>

\* The component holding the instance unmounts (or the page unloads)
QuizUnmount(h) ==
  /\ h \in quizMounted
  /\ quizMounted' = quizMounted \ {h}
  /\ attempts' = [attempts EXCEPT ![h] = <<>>]
  /\ UNCHANGED <<now, callsLeft, quizStore, nextAttemptId, outsideQuiz>>

\* startQuizAttempt(paperId, questions, filters) as quiz mode calls it, with
\* its paperId prop and its current question list; returns nextAttemptId
StartQuizAttempt(h, totalQuestions) ==
  /\ h \in quizMounted
  /\ nextAttemptId <= MaxAttempts
  /\ LET newAttempt == NewAttempt(nextAttemptId, selectedPaperFile, now, totalQuestions)
         updated == Append(attempts[h], newAttempt)
     IN  /\ saveAttempts(updated)
         /\ attempts' = [attempts EXCEPT ![h] = updated]
  /\ nextAttemptId' = nextAttemptId + 1
  /\ callsLeft > 0 /\ callsLeft' = callsLeft - 1
  /\ UNCHANGED <<now, quizMounted, outsideQuiz>>

\* prev.map(attempt => attempt.id === attemptId ? updatedAttempt : attempt)
EndedAttempts(list, attemptId, endTime, results) ==
  LET Finish(a) == IF a.id = attemptId THEN FinishedAttempt(a, endTime, results) ELSE a
  IN  MapAttempts(list, Finish)

EndQuizAttempt(h, attemptId, results) ==
  /\ h \in quizMounted
  /\ LET updated == EndedAttempts(attempts[h], attemptId, now, results)
     IN  /\ saveAttempts(updated)
         /\ attempts' = [attempts EXCEPT ![h] = ValidAttempts(updated)]
  /\ callsLeft > 0 /\ callsLeft' = callsLeft - 1
  /\ UNCHANGED <<now, quizMounted, nextAttemptId, outsideQuiz>>

HideAttempt(h, attemptId) ==
  /\ h \in quizMounted
  /\ LET Hide(a) == IF a.id = attemptId THEN [a EXCEPT !.isHidden = TRUE] ELSE a
         updated == MapAttempts(attempts[h], Hide)
     IN  /\ saveAttempts(updated)
         /\ attempts' = [attempts EXCEPT ![h] = updated]
  /\ callsLeft > 0 /\ callsLeft' = callsLeft - 1
  /\ UNCHANGED <<now, quizMounted, nextAttemptId, outsideQuiz>>

ShowAttempt(h, attemptId) ==
  /\ h \in quizMounted
  /\ LET Show(a) == IF a.id = attemptId THEN [a EXCEPT !.isHidden = FALSE] ELSE a
         updated == MapAttempts(attempts[h], Show)
     IN  /\ saveAttempts(updated)
         /\ attempts' = [attempts EXCEPT ![h] = updated]
  /\ callsLeft > 0 /\ callsLeft' = callsLeft - 1
  /\ UNCHANGED <<now, quizMounted, nextAttemptId, outsideQuiz>>

DeleteAttempt(h, attemptId) ==
  /\ h \in quizMounted
  /\ LET updated == SelectSeq(attempts[h], LAMBDA a : a.id # attemptId)
     IN  /\ saveAttempts(updated)
         /\ attempts' = [attempts EXCEPT ![h] = updated]
  /\ callsLeft > 0 /\ callsLeft' = callsLeft - 1
  /\ UNCHANGED <<now, quizMounted, nextAttemptId, outsideQuiz>>

CleanupInvalidAttempts(h) ==
  /\ h \in quizMounted
  /\ LET validAttempts == ValidAttempts(attempts[h])
         removedCount == Len(attempts[h]) - Len(validAttempts)
     IN  IF removedCount > 0
           THEN /\ saveAttempts(validAttempts)
                /\ attempts' = [attempts EXCEPT ![h] = validAttempts]
                /\ callsLeft > 0 /\ callsLeft' = callsLeft - 1
           ELSE UNCHANGED <<quizStore, attempts, callsLeft>>
  /\ UNCHANGED <<now, quizMounted, nextAttemptId, outsideQuiz>>

\* 'quiz-history' as an earlier session may have left it: absent, or a list
\* that still holds an attempt that never got any result
LegacyAttempt(attemptId, duration, results) ==
  [id |-> attemptId, paperId |-> "A.json", startTime |-> 0, endTime |-> 0,
   duration |-> duration, totalQuestions |-> 2,
   correctAnswers |-> Len(CorrectResults(results)), score |-> QuizScore(results),
   questions |-> results, isHidden |-> FALSE]

InitialQuizStores ==
  { <<>>,
    << <<LegacyAttempt(0, 0, <<>>)>> >> }

QuizInit ==
  /\ quizStore \in InitialQuizStores
  /\ quizMounted = {}
  /\ attempts = [h \in QuizInstances |-> <<>>]
  /\ nextAttemptId = 1

QuizIdle ==
  /\ quizStore = <<>>
  /\ quizMounted = {}
  /\ attempts = [h \in QuizInstances |-> <<>>]
  /\ nextAttemptId = 1

\* ------------------------------------------- QuizMode (the component)
\* QuizMode uses the Quiz History instance "quizMode".
\* quizState.quizCompleted as the cleanup of the mount effect sees it: the
\* effect has no dependencies, its closure holds the state of the first render
CleanupSeesCompleted == FALSE

\* The component mounts: the history loads, then the mount effect starts an
\* attempt and keeps its id for the cleanup.
QuizModeMount(totalQuestions) ==
  /\ "quizMode" \notin quizMounted
  /\ nextAttemptId <= MaxAttempts
  /\ callsLeft > 0 /\ callsLeft' = callsLeft - 1
  /\ LET loaded == IF quizStore # <<>> THEN ValidAttempts(quizStore[1]) ELSE <<>>
         newAttempt == NewAttempt(nextAttemptId, selectedPaperFile, now, totalQuestions)
         updated == Append(loaded, newAttempt)
     IN  /\ saveAttempts(updated)
         /\ attempts' = [attempts EXCEPT !["quizMode"] = updated]
  /\ quizMounted' = quizMounted \cup {"quizMode"}
  /\ currentAttemptId' = <<nextAttemptId>>
  /\ cleanupAttemptId' = <<nextAttemptId>>
  /\ quizCompleted' = FALSE
  /\ nextAttemptId' = nextAttemptId + 1
  /\ UNCHANGED <<now, outsideQuizMode>>

\* handleNextQuestion on the last question: completeQuizAttempt ends the
\* current attempt with the collected results
QuizModeComplete(results) ==
  /\ "quizMode" \in quizMounted
  /\ ~quizCompleted
  /\ currentAttemptId # <<>>
  /\ callsLeft > 0 /\ callsLeft' = callsLeft - 1
  /\ LET updated == EndedAttempts(attempts["quizMode"], currentAttemptId[1], now, results)
     IN  /\ saveAttempts(updated)
         /\ attempts' = [attempts EXCEPT !["quizMode"] = ValidAttempts(updated)]
  /\ quizCompleted' = TRUE
  /\ UNCHANGED <<now, quizMounted, nextAttemptId, currentAttemptId, cleanupAttemptId, outsideQuizMode>>

\* the Retry Quiz button of the completed screen
QuizModeRetry(totalQuestions) ==
  /\ "quizMode" \in quizMounted
  /\ quizCompleted
  /\ nextAttemptId <= MaxAttempts
  /\ callsLeft > 0 /\ callsLeft' = callsLeft - 1
  /\ LET newAttempt == NewAttempt(nextAttemptId, selectedPaperFile, now, totalQuestions)
         updated == Append(attempts["quizMode"], newAttempt)
     IN  /\ saveAttempts(updated)
         /\ attempts' = [attempts EXCEPT !["quizMode"] = updated]
  /\ currentAttemptId' = <<nextAttemptId>>
  /\ quizCompleted' = FALSE
  /\ nextAttemptId' = nextAttemptId + 1
  /\ UNCHANGED <<now, quizMounted, cleanupAttemptId, outsideQuizMode>>

\* cleanup(): if (!quizState.quizCompleted) endQuizAttempt(attemptId, [])
QuizModeCleanup ==
  IF ~CleanupSeesCompleted
    THEN saveAttempts(EndedAttempts(attempts["quizMode"], cleanupAttemptId[1], now, <<>>))
    ELSE UNCHANGED quizStore

\* the component unmounts (quiz mode is left): the effect's cleanup runs and
\* the component's state is dropped
QuizModeUnmount ==
  /\ "quizMode" \in quizMounted
  /\ QuizModeCleanup
  /\ quizMounted' = quizMounted \ {"quizMode"}
  /\ attempts' = [attempts EXCEPT !["quizMode"] = <<>>]
  /\ currentAttemptId' = <<>>
  /\ cleanupAttemptId' = <<>>
  /\ quizCompleted' = FALSE
  /\ UNCHANGED <<now, callsLeft, nextAttemptId, outsideQuizMode>>

\* the page unloads while quiz mode is shown: the beforeunload listener runs
\* cleanup, then every state is gone
QuizModePageUnload ==
  /\ "quizMode" \in quizMounted
  /\ QuizModeCleanup
  /\ quizMounted' = {}
  /\ attempts' = [h \in QuizInstances |-> <<>>]
  /\ currentAttemptId' = <<>>
  /\ cleanupAttemptId' = <<>>
  /\ quizCompleted' = FALSE
  /\ UNCHANGED <<now, callsLeft, nextAttemptId, outsideQuizMode>>

QuizModeIdle ==
  /\ currentAttemptId = <<>>
  /\ cleanupAttemptId = <<>>
  /\ quizCompleted = FALSE

\* ------------------------------------------------------------ Notes Store
\* mutant of createNoteId: the paper is left out of the key
createNoteId_QuestionOnly(questionId, paperId) == <<"default", "::", questionId>>

\* `${paperId}::${questionId}`
createNoteId(questionId, paperId) == <<paperId, "::", questionId>>

\* The load effect's migration: a key with '::' is kept, any other key is
\* rewritten as `default::${key}`.
MigratedNoteId(key) ==
  IF IncludesSeparator(key) THEN key ELSE <<"default", "::">> \o key

migratedNotes(loadedNotes) ==
  [g \in {MigratedNoteId(k) : k \in DOMAIN loadedNotes} |->
     loadedNotes[CHOOSE k \in DOMAIN loadedNotes : MigratedNoteId(k) = g]]

\* Object.keys(migratedNotes).some(key => !key.includes('::'))
MigrationOccurred(migrated) == \E key \in DOMAIN migrated : ~IncludesSeparator(key)

\* Mount of instance i: the load effect.
NotesMount(i) ==
  /\ i \notin notesMounted
  /\ notesMounted' = notesMounted \cup {i}
  /\ IF notesStore # <<>>
       THEN LET migrated == migratedNotes(notesStore[1])
            IN  /\ notes' = [notes EXCEPT ![i] = migrated]
                /\ notesStore' = IF MigrationOccurred(migrated)
                                   THEN <<migrated>> ELSE notesStore
       ELSE UNCHANGED <<notes, notesStore>>
  /\ UNCHANGED <<callsLeft, outsideNotes>>

NotesUnmount(i) ==
  /\ i \in notesMounted
  /\ notesMounted' = notesMounted \ {i}
  /\ notes' = [notes EXCEPT ![i] = EmptyMap]
  /\ UNCHANGED <<callsLeft, notesStore, outsideNotes>>

\* saveNotes(next) called by instance i
saveNotes(i, next) ==
  /\ notesStore' = <<next>>
  /\ notes' = [notes EXCEPT ![i] = next]

getNote(i, questionId, paperId) ==
  MapGet(notes[i], createNoteId(questionId, paperId), "")

setNote(i, questionId, text, paperId) ==
  /\ i \in notesMounted
  /\ callsLeft > 0
  /\ callsLeft' = callsLeft - 1
  /\ saveNotes(i, MapSet(notes[i], createNoteId(questionId, paperId), text))
  /\ UNCHANGED <<notesMounted, outsideNotes>>

clearNote(i, questionId, paperId) ==
  /\ i \in notesMounted
  /\ callsLeft > 0
  /\ callsLeft' = callsLeft - 1
  /\ saveNotes(i, MapDelete(notes[i], createNoteId(questionId, paperId)))
  /\ UNCHANGED <<notesMounted, outsideNotes>>

\* 'gtu-learn-notes-v1' as earlier sessions, and releases, may have left it
LegacyNotes == [k \in {<<"1_a">>} |-> "foo"]

MixedNotes ==
  [k \in {<<"2_b">>, createNoteId("1_a", "A.json")} |->
     IF k = <<"2_b">> THEN "foo" ELSE "bar"]

InitialNotesStores == {<<>>, <<LegacyNotes>>, <<MixedNotes>>}

NotesInit ==
  /\ notesStore \in InitialNotesStores
  /\ notesMounted = {}
  /\ notes = [i \in NoteInstances |-> EmptyMap]

NotesIdle ==
  /\ notesStore = <<>>
  /\ notesMounted = {}
  /\ notes = [i \in NoteInstances |-> EmptyMap]

\* --------------------------------------------------------- Revision Store
RECURSIVE SetFromArray(_)
\* new Set(array): the distinct elements in first-insertion order
SetFromArray(array) ==
  IF array = <<>> THEN <<>>
  ELSE LET front == SetFromArray(SubSeq(array, 1, Len(array) - 1))
           last == array[Len(array)]
       IN  IF \E n \in 1..Len(front) : front[n] = last
             THEN front ELSE Append(front, last)

SetHas(set, x) == \E n \in 1..Len(set) : set[n] = x

SetDelete(set, x) == SelectSeq(set, LAMBDA y : y # x)

\* the updater of toggleRevision
ToggledSet(prev, questionId) ==
  IF SetHas(prev, questionId) THEN SetDelete(prev, questionId)
                              ELSE Append(prev, questionId)

\* the load effect for storage key `revision-questions-${paperId}`
LoadedRevision(current, paperId) ==
  IF revisionStore[paperId] # <<>>
    THEN SetFromArray(revisionStore[paperId][1]) ELSE current

RevisionMount(i) ==
  /\ i \notin revisionMounted
  /\ revisionMounted' = revisionMounted \cup {i}
  /\ revisionQuestions' =
       [revisionQuestions EXCEPT ![i] = LoadedRevision(<<>>, selectedPaperFile)]
  /\ UNCHANGED <<callsLeft, revisionStore, outsideRevision>>

RevisionUnmount(i) ==
  /\ i \in revisionMounted
  /\ revisionMounted' = revisionMounted \ {i}
  /\ revisionQuestions' = [revisionQuestions EXCEPT ![i] = <<>>]
  /\ UNCHANGED <<callsLeft, revisionStore, outsideRevision>>

toggleRevision(i, questionId) ==
  /\ i \in revisionMounted
  /\ callsLeft > 0
  /\ callsLeft' = callsLeft - 1
  /\ LET newSet == ToggledSet(revisionQuestions[i], questionId)
     IN  /\ revisionStore' = [revisionStore EXCEPT ![selectedPaperFile] = <<newSet>>]
         /\ revisionQuestions' = [revisionQuestions EXCEPT ![i] = newSet]
  /\ UNCHANGED <<revisionMounted, outsideRevision>>

\* two calls toggleRevision(questionId) on instance i, one after the other
toggleRevisionTwice(i, questionId) ==
  /\ i \in revisionMounted
  /\ callsLeft > 1
  /\ callsLeft' = callsLeft - 2
  /\ LET firstSet == ToggledSet(revisionQuestions[i], questionId)
         secondSet == ToggledSet(firstSet, questionId)
     IN  /\ revisionStore' = [revisionStore EXCEPT ![selectedPaperFile] = <<secondSet>>]
         /\ revisionQuestions' = [revisionQuestions EXCEPT ![i] = secondSet]
  /\ UNCHANGED <<revisionMounted, outsideRevision>>

isMarkedForRevision(i, questionId) == SetHas(revisionQuestions[i], questionId)

getRevisionCount(i) == Len(revisionQuestions[i])

InitialRevisionStores ==
  {[p \in Papers |-> <<>>],
   [p \in Papers |-> IF p = "B.json" THEN << <<"1_a">> >> ELSE <<>>]}

RevisionInit ==
  /\ revisionStore \in InitialRevisionStores
  /\ revisionMounted = {}
  /\ revisionQuestions = [i \in RevisionInstances |-> <<>>]

RevisionIdle ==
  /\ revisionStore = [p \in Papers |-> <<>>]
  /\ revisionMounted = {}
  /\ revisionQuestions = [i \in RevisionInstances |-> <<>>]

\* ----------------------------------------------------------- Rating Store
\* the load effect for storage key `question-ratings-${paperId}`
LoadedRatings(current, paperId) ==
  IF ratingStore[paperId] # <<>> THEN ratingStore[paperId][1] ELSE current

RatingMount(i) ==
  /\ i \notin ratingMounted
  /\ ratingMounted' = ratingMounted \cup {i}
  /\ ratings' = [ratings EXCEPT ![i] = LoadedRatings(EmptyMap, selectedPaperFile)]
  /\ UNCHANGED <<callsLeft, ratingStore, outsideRating>>

RatingUnmount(i) ==
  /\ i \in ratingMounted
  /\ ratingMounted' = ratingMounted \ {i}
  /\ ratings' = [ratings EXCEPT ![i] = EmptyMap]
  /\ UNCHANGED <<callsLeft, ratingStore, outsideRating>>

\* setRating(questionId, rating) of instance i
setRating(i, questionId, rating) ==
  /\ i \in ratingMounted
  /\ callsLeft > 0
  /\ callsLeft' = callsLeft - 1
  /\ LET newRatings == MapSet(ratings[i], questionId, rating)
     IN  /\ ratings' = [ratings EXCEPT ![i] = newRatings]
         /\ ratingStore' = [ratingStore EXCEPT ![selectedPaperFile] = <<newRatings>>]
  /\ UNCHANGED <<ratingMounted, outsideRating>>

\* ratings[questionId] || 0
getRating(i, questionId) == MapGet(ratings[i], questionId, 0)

\* quiz mode's setRatingForQuestion(questionId, rating, questionPaperId): the
\* stored object is read, changed and written; no hook state is touched
setRatingForQuestion(questionId, rating, questionPaperId) ==
  /\ callsLeft > 0
  /\ callsLeft' = callsLeft - 1
  /\ LET stored == IF ratingStore[questionPaperId] # <<>>
                     THEN ratingStore[questionPaperId][1] ELSE EmptyMap
     IN  ratingStore' = [ratingStore EXCEPT
                           ![questionPaperId] = <<MapSet(stored, questionId, rating)>>]
  /\ UNCHANGED <<ratingMounted, ratings, outsideRating>>

\* quiz mode's getRatingForQuestion(questionId, questionPaperId)
getRatingForQuestion(questionId, questionPaperId) ==
  IF ratingStore[questionPaperId] # <<>>
    THEN MapGet(ratingStore[questionPaperId][1], questionId, 0)
    ELSE 0

InitialRatingStores ==
  {[p \in Papers |-> <<>>],
   [p \in Papers |-> IF p = "A.json" THEN <<MapSet(EmptyMap, "1_a", 4)>> ELSE <<>>]}

RatingInit ==
  /\ ratingStore \in InitialRatingStores
  /\ ratingMounted = {}
  /\ ratings = [i \in RatingInstances |-> EmptyMap]

RatingIdle ==
  /\ ratingStore = [p \in Papers |-> <<>>]
  /\ ratingMounted = {}
  /\ ratings = [i \in RatingInstances |-> EmptyMap]

\* ----------------------------------------------------------- Paper Loader
\* A response body, by what the loader does with its text: whether the
\* trimmed text starts with '<', and what JSON.parse makes of it (no value:
\* a SyntaxError).
HtmlPage == [startsWithLt |-> TRUE, parsed |-> <<>>]

Garbage == [startsWithLt |-> FALSE, parsed |-> <<>>]

JsonBody(value) == [startsWithLt |-> FALSE, parsed |-> <<value>>]

\* JSON values: null, a number, an array, and objects by their metadata and
\* questions members (questions absent, an array, or a non-empty string)
JsonNull == [type |-> "null"]

JsonNumber == [type |-> "number"]

JsonArray == [type |-> "array"]

JsonObject(metadata, questions) ==
  [type |-> "object", metadata |-> metadata, questions |-> questions]

JsonValues ==
  {JsonNull, JsonNumber, JsonArray} \cup
  {JsonObject(m, q) : m \in BOOLEAN, q \in {"absent", "array", "string"}}

Bodies == {HtmlPage, Garbage} \cup {JsonBody(v) : v \in JsonValues}

Statuses == {200, 404, 500}

\* what a fetch settles with: a rejection, or a response
NetworkError == [rejected |-> TRUE]

Response(status, body) == [rejected |-> FALSE, status |-> status, body |-> body]

Responses == {NetworkError} \cup {Response(st, b) : st \in Statuses, b \in Bodies}

\* response.ok
ResponseOk(response) == response.status >= 200 /\ response.status <= 299

\* data.metadata / data.questions read inside the try of JSON.parse: reading
\* a member of null throws
ReadsMembers(value) == value.type # "null"

\* data && data.questions
HasQuestions(value) == value.type = "object" /\ value.questions # "absent"

\* data.questions.map(...): only an array has map
CleanedData(value) == [value EXCEPT !.questions = "cleaned"]

\* The outcome of loadQuestionPaper for a settled fetch: the error message
\* thrown, or the data handed to setQuestionPaper.
Thrown(message) == [threw |-> TRUE, message |-> message]

Loaded(data) == [threw |-> FALSE, data |-> data]

LoadOutcome(response) ==
  IF response.rejected THEN Thrown("Failed to fetch")
  ELSE IF ~ResponseOk(response)
    THEN IF response.status = 404 THEN Thrown("not found")
                                  ELSE Thrown("Failed to load question paper")
  ELSE IF response.body.startsWithLt THEN Thrown("Received HTML content instead of JSON")
  ELSE IF response.body.parsed = <<>> THEN Thrown("JSON Parse Error")
  ELSE LET data == response.body.parsed[1]
       IN  IF ~ReadsMembers(data) THEN Thrown("JSON Parse Error")
           ELSE IF HasQuestions(data)
             THEN IF data.questions = "array" THEN Loaded(CleanedData(data))
                                              ELSE Thrown("data.questions.map is not a function")
           ELSE Loaded(data)

\* The effect of useQuestionPaper for the filename prop: mount, or a change
\* of the prop.  For a non-empty filename loadQuestionPaper runs up to its
\* first await.
FilenameEffect(filename) ==
  /\ loaderFilename # <<filename>>
  /\ loaderFilename' = <<filename>>
  /\ IF filename # ""
       THEN /\ loading' = TRUE
            /\ error' = <<>>
            /\ fetches' = fetches \cup {filename}
       ELSE UNCHANGED <<loading, error, fetches>>
  /\ UNCHANGED <<questionPaper, callsLeft, outsideLoader>>

\* A fetch in flight settles and loadQuestionPaper runs to its end.
FetchSettles(filename, response) ==
  /\ filename \in fetches
  /\ fetches' = fetches \ {filename}
  /\ LET outcome == LoadOutcome(response)
     IN  IF outcome.threw
           THEN /\ error' = <<outcome.message>>
                /\ UNCHANGED questionPaper
           ELSE /\ questionPaper' = <<outcome.data>>
                /\ UNCHANGED error
  /\ loading' = FALSE
  /\ UNCHANGED <<loaderFilename, callsLeft, outsideLoader>>

LoaderFilenames == Papers \cup {""}

LoaderIdle ==
  /\ loaderFilename = <<>>
  /\ questionPaper = <<>>
  /\ loading = TRUE
  /\ error = <<>>
  /\ fetches = {}

\* --------------------------------------------- Study view: the question index
\* App in study mode on the home route, with useQuestionPaper and
\* SwipeableQuestionDisplay.  What the server holds, by file:
StudyPapers ==
  [f \in Papers |->
     IF f = "A.json"
       THEN [questions |-> <<Question("1", "a", 7), Question("1", "b", 7), Question("2", "a", 3)>>]
       ELSE [questions |-> <<Question("1", "a", 7)>>]]

\* App renders SwipeableQuestionDisplay: past the loading screen, the error
\* screen and the 'No questions available' screen
DisplayShown ==
  /\ ~loading
  /\ error = <<>>
  /\ questionPaper # <<>>
  /\ Len(questionPaper[1].questions) # 0

\* SwipeableQuestionDisplay: hasNext and hasPrevious of the current render
hasNext == currentQuestionIndex < Len(questionPaper[1].questions) - 1
hasPrevious == currentQuestionIndex > 0

\* A 250 ms timer: the onNext / onPrevious of the render the handler belongs
\* to close over that render's questionPaper and currentQuestionIndex; the
\* display instance that set the timer may be gone when it fires.
NavTimer(direction) ==
  [direction |-> direction, questionPaper |-> questionPaper,
   currentQuestionIndex |-> currentQuestionIndex, displayMounted |-> TRUE]

\* SwipeableQuestionDisplay.handleNext (arrow button or left swipe)
SwipeHandleNext ==
  /\ DisplayShown
  /\ ~(~hasNext \/ isAnimating)
  /\ callsLeft > 0
  /\ callsLeft' = callsLeft - 1
  /\ isAnimating' = TRUE
  /\ navTimers' = Append(navTimers, NavTimer("next"))
  /\ UNCHANGED <<selectedPaperFile, currentQuestionIndex, loaderVars, showPaperSelector, outsideStudy>>

\* SwipeableQuestionDisplay.handlePrevious (arrow button or right swipe)
SwipeHandlePrevious ==
  /\ DisplayShown
  /\ ~(~hasPrevious \/ isAnimating)
  /\ callsLeft > 0
  /\ callsLeft' = callsLeft - 1
  /\ isAnimating' = TRUE
  /\ navTimers' = Append(navTimers, NavTimer("previous"))
  /\ UNCHANGED <<selectedPaperFile, currentQuestionIndex, loaderVars, showPaperSelector, outsideStudy>>

\* App.handleNext of the render `closure` was taken from, applied to the
\* index `prev` the state holds now
AppHandleNext(closure, prev) ==
  IF closure.questionPaper # <<>>
       /\ closure.currentQuestionIndex < Len(closure.questionPaper[1].questions) - 1
    THEN prev + 1
    ELSE prev

\* App.handlePrevious of that render
AppHandlePrevious(closure, prev) ==
  IF closure.currentQuestionIndex > 0 THEN prev - 1 ELSE prev

\* The oldest timer fires: onNext() or onPrevious(), then
\* setIsAnimating(false), which does nothing once the display is unmounted.
NavTimerFires ==
  /\ navTimers # <<>>
  /\ LET timer == Head(navTimers)
     IN  /\ currentQuestionIndex' =
               IF timer.direction = "next"
                 THEN AppHandleNext(timer, currentQuestionIndex)
                 ELSE AppHandlePrevious(timer, currentQuestionIndex)
         /\ isAnimating' = IF timer.displayMounted THEN FALSE ELSE isAnimating
  /\ navTimers' = Tail(navTimers)
  /\ UNCHANGED <<callsLeft, selectedPaperFile, loaderVars, showPaperSelector, outsideStudy>>

\* Header's onSubjectsClick: the paper selector overlay opens
OpenPaperSelector ==
  /\ DisplayShown
  /\ ~showPaperSelector
  /\ callsLeft > 0
  /\ callsLeft' = callsLeft - 1
  /\ showPaperSelector' = TRUE
  /\ UNCHANGED <<selectedPaperFile, currentQuestionIndex, loaderVars, isAnimating, navTimers, outsideStudy>>

\* App.handlePaperSelect(filename), with the effect of useQuestionPaper for
\* the new filename: the loading screen replaces the display, whose timers
\* stay pending.
handlePaperSelect(filename) ==
  /\ DisplayShown
  /\ showPaperSelector
  /\ callsLeft > 0
  /\ callsLeft' = callsLeft - 1
  /\ selectedPaperFile' = filename
  /\ currentQuestionIndex' = 0
  /\ showPaperSelector' = FALSE
  /\ IF loaderFilename # <<filename>>
       THEN /\ loaderFilename' = <<filename>>
            /\ loading' = TRUE
            /\ error' = <<>>
            /\ fetches' = fetches \cup {filename}
            /\ isAnimating' = FALSE
            /\ navTimers' = [n \in 1..Len(navTimers) |->
                               [navTimers[n] EXCEPT !.displayMounted = FALSE]]
       ELSE UNCHANGED <<loaderFilename, loading, error, fetches, isAnimating, navTimers>>
  /\ UNCHANGED <<questionPaper, outsideStudy>>

\* The fetch of the selected paper settles: the paper, or an error
StudyFetchSettles(filename, ok) ==
  /\ filename \in fetches
  /\ fetches' = fetches \ {filename}
  /\ IF ok
       THEN /\ questionPaper' = <<StudyPapers[filename]>>
            /\ UNCHANGED error
       ELSE /\ error' = <<"Failed to load question paper">>
            /\ UNCHANGED questionPaper
  /\ loading' = FALSE
  /\ UNCHANGED <<callsLeft, selectedPaperFile, currentQuestionIndex, loaderFilename,
                 studyVars, outsideStudy>>

StudyIdle ==
  /\ isAnimating = FALSE
  /\ navTimers = <<>>
  /\ showPaperSelector = FALSE

\* ------------------------------------------ Progress Tracker: weak areas
\* a question of a paper with its tags
TaggedQuestion(question_no, sub_question_no, tags) ==
  [question_no |-> question_no, sub_question_no |-> sub_question_no, marks |-> 7,
   tags |-> tags]

\* the questions the dashboard passes to the hook
TaggedQuestions ==
  <<TaggedQuestion("1", "a", <<"os">>),
    TaggedQuestion("2", "b", <<"os", "net">>),
    TaggedQuestion("3", "a", <<"net">>),
    TaggedQuestion("3", "b", <<>>)>>

TaggedQuestionIds == {QuestionIdOf(TaggedQuestions[n]) : n \in 1..Len(TaggedQuestions)}

WeakAreaConfidences == {1, 2, 3}

\* progress.confidenceLevel > 0 && progress.confidenceLevel <= 2
IsLowConfidence_AtMostTwo(progress) == progress.confidenceLevel <= 2

IsLowConfidence(progress) ==
  progress.confidenceLevel > 0 /\ progress.confidenceLevel <= 2

\* question.tags.forEach: total++ and, for a low-confidence question,
\* lowConfidence++ under each tag
RECURSIVE CountTags(_, _, _)
CountTags(tagPerformance, tags, low) ==
  IF tags = <<>> THEN tagPerformance
  ELSE LET tag == Head(tags)
           current == MapGet(tagPerformance, tag, [total |-> 0, lowConfidence |-> 0])
           counted == [total |-> current.total + 1,
                       lowConfidence |-> current.lowConfidence + (IF low THEN 1 ELSE 0)]
       IN  CountTags(MapSet(tagPerformance, tag, counted), Tail(tags), low)

\* allQuestions.forEach of getWeakAreas
RECURSIVE TagPerformance(_, _, _)
TagPerformance(i, tagPerformance, questions) ==
  IF questions = <<>> THEN tagPerformance
  ELSE LET question == Head(questions)
           progress == getQuestionProgress(i, QuestionIdOf(question))
       IN  TagPerformance(i, CountTags(tagPerformance, question.tags, IsLowConfidence(progress)),
                          Tail(questions))

\* getWeakAreas(): the tags with total > 0 and lowConfidence / total > 0.5
getWeakAreas(i) ==
  LET tagPerformance == TagPerformance(i, EmptyMap, allQuestions)
  IN  {tag \in DOMAIN tagPerformance :
         /\ tagPerformance[tag].total > 0
         /\ GreaterThanHalfDouble(DivideDouble(tagPerformance[tag].lowConfidence,
                                               tagPerformance[tag].total))}

\* --------------------------------------------- QuizMode: confidence ratings
QuizRatings == 1..10
StarRatings == 1..5

\* mutant of ConfidenceScore: the score is truncated
ConfidenceScore_Truncated(rating) == (rating * 5) \div 10

\* Math.round((rating / 10) * 5)
ConfidenceScore(rating) == MathRoundDouble(TimesDouble(DivideDouble(rating, 10), 5))

\* the progress map after updateConfidence(questionId, confidence) on prev
WithConfidence(prev, questionId, paperId, confidence) ==
  LET globalKey == createGlobalKey(questionId, paperId)
      current == MapGet(prev, globalKey, NewProgress(questionId, paperId))
      updated == ObjectSpread(ObjectSpread(current, [confidenceLevel |-> confidence]),
                              [questionId |-> questionId, paperId |-> paperId])
  IN  MapSet(prev, globalKey, updated)

\* QuizMode.handleRating(rating) on the current question: quizState.ratings,
\* then updateConfidence with the converted score
handleRating(i, questionId, rating) ==
  /\ i \in trackerMounted
  /\ callsLeft > 0
  /\ callsLeft' = callsLeft - 1
  /\ quizRatings' = MapSet(quizRatings, questionId, rating)
  /\ LET confidenceScore == ConfidenceScore(rating)
         newProgress == WithConfidence(questionProgress[i], questionId, selectedPaperFile,
                                       confidenceScore)
     IN  /\ questionProgress' = [questionProgress EXCEPT ![i] = newProgress]
         /\ saveProgress(newProgress)
  /\ UNCHANGED <<ratingStore, outsideQuizState>>

\* StarRating's onRatingChange in quiz mode: setRatingForQuestion, then
\* updateConfidence(questionId, rating)
StarRatingChange(i, questionId, rating) ==
  /\ i \in trackerMounted
  /\ callsLeft > 0
  /\ callsLeft' = callsLeft - 1
  /\ LET questionPaperId == selectedPaperFile
         stored == IF ratingStore[questionPaperId] # <<>>
                     THEN ratingStore[questionPaperId][1] ELSE EmptyMap
     IN  ratingStore' = [ratingStore EXCEPT
                           ![questionPaperId] = <<MapSet(stored, questionId, rating)>>]
  /\ LET newProgress == WithConfidence(questionProgress[i], questionId, selectedPaperFile, rating)
     IN  /\ questionProgress' = [questionProgress EXCEPT ![i] = newProgress]
         /\ saveProgress(newProgress)
  /\ UNCHANGED <<quizRatings, outsideQuizState>>

QuizStateIdle == quizRatings = EmptyMap

\* ------------------------------------------------- localStorage failures
\* The store operations when localStorage does not work.  In these
\* operations storage is empty and stays so.
StorageModes == {"disabled", "quota"}

\* does this localStorage access throw
Throws(access) ==
  \/ storageMode = "disabled"
  \/ storageMode = "quota" /\ access = "setItem"

\* An exception escapes from an effect: React unmounts the component tree,
\* every hook instance loses its state.
TreeUnmounted ==
  /\ trackerMounted' = {}
  /\ questionProgress' = [t \in Trackers |-> EmptyMap]
  /\ activeSession' = [t \in Trackers |-> <<>>]
  /\ notesMounted' = {}
  /\ notes' = [i \in NoteInstances |-> EmptyMap]
  /\ revisionMounted' = {}
  /\ revisionQuestions' = [i \in RevisionInstances |-> <<>>]

storesUntouched ==
  <<now, selectedPaperFile, progressStore, activeStore, cleanupStore, notesStore,
    revisionStore, storageMode, quizVars, loaderVars, statsVars, ratingVars, aggVars, quizModeVars, timerVars, deckVars, studyVars, quizStateVars>>

\* Mount of tracker instance i: both load effects are inside try/catch and
\* find no data; the save effect for the null active session calls
\* removeItem outside any try.
TrackerMountStorageFails(i) ==
  /\ storageMode # "ok"
  /\ i \notin trackerMounted
  /\ IF Throws("removeItem")
       THEN /\ escaped' = escaped \cup {"active-session save effect"}
            /\ TreeUnmounted
       ELSE /\ trackerMounted' = trackerMounted \cup {i}
            /\ questionProgress' = [questionProgress EXCEPT ![i] = EmptyMap]
            /\ activeSession' = [activeSession EXCEPT ![i] = <<>>]
            /\ UNCHANGED <<escaped, notesMounted, notes, revisionMounted, revisionQuestions>>
  /\ UNCHANGED <<callsLeft, storesUntouched>>

\* startStudySession: saveProgress catches the failure; the save effect for
\* the new active session calls setItem outside any try.
StartStudySessionStorageFails(i, questionId, sessionType) ==
  /\ storageMode # "ok"
  /\ i \in trackerMounted
  /\ callsLeft > 0
  /\ callsLeft' = callsLeft - 1
  /\ Throws("setItem")
  /\ escaped' = escaped \cup {"active-session save effect"}
  /\ TreeUnmounted
  /\ UNCHANGED storesUntouched

\* updateQuestionProgress: the map changes in memory, saveProgress catches
\* the failure.
UpdateStorageFails(i, questionId, updates) ==
  /\ storageMode # "ok"
  /\ i \in trackerMounted
  /\ callsLeft > 0
  /\ callsLeft' = callsLeft - 1
  /\ LET paperId == selectedPaperFile
         globalKey == createGlobalKey(questionId, paperId)
         current == MapGet(questionProgress[i], globalKey, NewProgress(questionId, paperId))
         updated == ObjectSpread(ObjectSpread(current, updates),
                                 [questionId |-> questionId, paperId |-> paperId])
     IN  questionProgress' =
           [questionProgress EXCEPT ![i] = MapSet(questionProgress[i], globalKey, updated)]
  /\ UNCHANGED <<escaped, trackerMounted, activeSession, notesMounted, notes,
                 revisionMounted, revisionQuestions, storesUntouched>>

\* handleBeforeUnload reads 'active-study-session' outside any try.
PageUnloadStorageFails ==
  /\ storageMode # "ok"
  /\ trackerMounted # {}
  /\ escaped' = IF Throws("getItem") THEN escaped \cup {"handleBeforeUnload"} ELSE escaped
  /\ TreeUnmounted
  /\ UNCHANGED <<callsLeft, storesUntouched>>

\* ThemeProvider mounts: the load effect calls getItem outside any try; when
\* that returns null the save effect calls setItem outside any try.
ThemeProviderMountStorageFails ==
  /\ storageMode # "ok"
  /\ escaped' = escaped \cup {IF Throws("getItem") THEN "theme load effect"
                                                   ELSE "theme save effect"}
  /\ TreeUnmounted
  /\ UNCHANGED <<callsLeft, storesUntouched>>

\* useNotesManager: load effect and saveNotes are inside try/catch.
NotesMountStorageFails(i) ==
  /\ storageMode # "ok"
  /\ i \notin notesMounted
  /\ notesMounted' = notesMounted \cup {i}
  /\ notes' = [notes EXCEPT ![i] = EmptyMap]
  /\ UNCHANGED <<escaped, callsLeft, trackerMounted, questionProgress, activeSession,
                 revisionMounted, revisionQuestions, storesUntouched>>

SetNoteStorageFails(i, questionId, text, paperId) ==
  /\ storageMode # "ok"
  /\ i \in notesMounted
  /\ callsLeft > 0
  /\ callsLeft' = callsLeft - 1
  /\ notes' = [notes EXCEPT ![i] = MapSet(notes[i], createNoteId(questionId, paperId), text)]
  /\ UNCHANGED <<escaped, notesMounted, trackerMounted, questionProgress, activeSession,
                 revisionMounted, revisionQuestions, storesUntouched>>

\* useRevisionToggle: load effect and the write in toggleRevision are inside
\* try/catch.
RevisionMountStorageFails(i) ==
  /\ storageMode # "ok"
  /\ i \notin revisionMounted
  /\ revisionMounted' = revisionMounted \cup {i}
  /\ revisionQuestions' = [revisionQuestions EXCEPT ![i] = <<>>]
  /\ UNCHANGED <<escaped, callsLeft, trackerMounted, questionProgress, activeSession,
                 notesMounted, notes, storesUntouched>>

ToggleRevisionStorageFails(i, questionId) ==
  /\ storageMode # "ok"
  /\ i \in revisionMounted
  /\ callsLeft > 0
  /\ callsLeft' = callsLeft - 1
  /\ revisionQuestions' =
       [revisionQuestions EXCEPT ![i] = ToggledSet(revisionQuestions[i], questionId)]
  /\ UNCHANGED <<escaped, revisionMounted, trackerMounted, questionProgress, activeSession,
                 notesMounted, notes, storesUntouched>>

StorageWorks ==
  /\ storageMode = "ok"
  /\ escaped = {}

\* ------------------------------------------- Cross-paper revision (useSubjectRevision)
\* the candidate files discoverPaperFiles probes, in order
commonPatterns == <<"A.json", "B.json", "C.json">>

CandidateFiles == {commonPatterns[n] : n \in 1..Len(commonPatterns)}

Computations == {"calculateRevisionCounts", "getAllRevisionQuestions"}

\* the paper each candidate file holds on the server
PaperOnServer(filename) ==
  [metadata |->
     [subject_name |-> IF filename = "C.json" THEN "DS" ELSE "IP",
      subject_code |-> IF filename = "C.json" THEN "3154201" ELSE "3155204",
      examination |-> IF filename = "B.json" THEN "WINTER 2024" ELSE "SUMMER 2025"],
   questions |-> <<Question("1", "a", 7), Question("2", "b", 3)>>]

\* How a fetch of a file ends: "ok" (status 200 with the paper), "network"
\* (the fetch rejects), "status" (a non-OK status with an HTML error page),
\* "statusWithPaper" (a non-OK status whose body is the paper all the same),
\* "body" (status 200 with a body that is not JSON).
FetchFailures == {"network", "status", "statusWithPaper", "body"}

ServerStates == {"ok"} \cup FetchFailures

\* await fetch(...) rejects
FetchThrows(filename) == serverState[filename] = "network"

\* mutant of FetchOk: the status is not looked at
FetchOk_AnyStatus(filename) == TRUE

\* response.ok
FetchOk(filename) == serverState[filename] \in {"ok", "body"}

\* await response.json() rejects
JsonThrows(filename) == serverState[filename] \in {"status", "body"}

\* paperData.metadata && subject_name && subject_code && examination
HasSubjectMetadata(paperData) ==
  /\ paperData.metadata.subject_name # ""
  /\ paperData.metadata.subject_code # ""
  /\ paperData.metadata.examination # ""

\* paperData.metadata.subject_code + '_' + paperData.metadata.examination
PaperIdOf(paperData) ==
  paperData.metadata.subject_code \o "_" \o paperData.metadata.examination

\* identifier.endsWith('.json')
EndsWithJson(identifier) == identifier \in CandidateFiles \cup Papers \cup {"ip-1.json"}

\* localStorage.getItem('revision-questions-' + identifier)
getRevisionItem(identifier) ==
  IF identifier \in DOMAIN revisionStore THEN revisionStore[identifier] ELSE <<>>

\* the identifiers of the 'revision-questions-' keys localStorage holds
RevisionKeys == {p \in DOMAIN revisionStore : revisionStore[p] # <<>>}

AtAwait(c, stage) == aggPc[c].stage = stage

GoTo(c, stage, index) == aggPc' = [aggPc EXCEPT ![c] = [stage |-> stage, index |-> index]]

\* the scan of calculateRevisionCounts over the revision keys, from counts
RECURSIVE ScanKeys(_, _, _, _)
ScanKeys(keys, counts, byPaperId, byFilename) ==
  IF keys = {} THEN counts
  ELSE LET identifier == CHOOSE k \in keys : TRUE
           found == IF identifier \in DOMAIN byPaperId THEN <<byPaperId[identifier]>>
                    ELSE IF EndsWithJson(identifier) /\ identifier \in DOMAIN byFilename
                      THEN <<byFilename[identifier]>>
                    ELSE <<>>
           counted == IF found # <<>>
                        THEN MapSet(counts, found[1],
                                    MapGet(counts, found[1], 0) + Len(getRevisionItem(identifier)[1]))
                        ELSE counts
       IN  ScanKeys(keys \ {identifier}, counted, byPaperId, byFilename)

\* counts as the first loop leaves it: 0 for every subject of paperSubjectMap
InitialCounts(byPaperId) == [s \in {byPaperId[k] : k \in DOMAIN byPaperId} |-> 0]

\* calculateRevisionCounts from its scan to setSubjectRevisionCounts(counts)
CountsFinish(byPaperId, byFilename) ==
  /\ subjectRevisionCounts' = ScanKeys(RevisionKeys, InitialCounts(byPaperId), byPaperId, byFilename)
  /\ GoTo("calculateRevisionCounts", "done", 0)

\* what follows discoverPaperFiles in computation c, which found `files`
AfterDiscovery(c, files) ==
  IF c = "calculateRevisionCounts"
    THEN /\ IF files = <<>>
              THEN CountsFinish(EmptyMap, EmptyMap)
              ELSE GoTo(c, "subjects", 1) /\ UNCHANGED subjectRevisionCounts
         /\ UNCHANGED returnedQuestions
    ELSE /\ IF files = <<>>
              THEN GoTo(c, "done", 0) /\ returnedQuestions' = <<allRevisionQuestions>>
              ELSE GoTo(c, "collect", 1) /\ UNCHANGED returnedQuestions
         /\ UNCHANGED subjectRevisionCounts

\* discoverPaperFiles moves on from the file at index, having found `files`
NextCandidate(c, files) ==
  /\ validPaperFiles' = [validPaperFiles EXCEPT ![c] = files]
  /\ IF aggPc[c].index < Len(commonPatterns)
       THEN /\ GoTo(c, "head", aggPc[c].index + 1)
            /\ UNCHANGED <<subjectRevisionCounts, returnedQuestions>>
       ELSE AfterDiscovery(c, files)

\* the mount effect: calculateRevisionCounts() runs up to its first fetch
CalculateRevisionCounts ==
  /\ AtAwait("calculateRevisionCounts", "idle")
  /\ GoTo("calculateRevisionCounts", "head", 1)
  /\ UNCHANGED <<now, callsLeft, serverState, validPaperFiles, paperSubjectMap, filenameSubjectMap,
                 subjectRevisionCounts, currentSubject, allRevisionQuestions, returnedQuestions,
                 outsideAgg>>

\* getAllRevisionQuestions(subject) runs up to its first fetch
GetAllRevisionQuestions(subject) ==
  /\ AtAwait("getAllRevisionQuestions", "idle")
  /\ currentSubject' = subject
  /\ GoTo("getAllRevisionQuestions", "head", 1)
  /\ UNCHANGED <<now, callsLeft, serverState, validPaperFiles, paperSubjectMap, filenameSubjectMap,
                 subjectRevisionCounts, allRevisionQuestions, returnedQuestions, outsideAgg>>

\* discoverPaperFiles: the HEAD fetch of the candidate settles
DiscoverHead(c) ==
  /\ AtAwait(c, "head")
  /\ LET filename == commonPatterns[aggPc[c].index]
     IN  IF ~FetchThrows(filename) /\ FetchOk(filename)
           THEN /\ GoTo(c, "get", aggPc[c].index)
                /\ UNCHANGED <<validPaperFiles, subjectRevisionCounts, returnedQuestions>>
           ELSE NextCandidate(c, validPaperFiles[c])
  /\ UNCHANGED <<now, callsLeft, serverState, paperSubjectMap, filenameSubjectMap, currentSubject,
                 allRevisionQuestions, outsideAgg>>

\* discoverPaperFiles: the GET fetch of the candidate and its json() settle;
\* the status of this response is not looked at
DiscoverGet(c) ==
  /\ AtAwait(c, "get")
  /\ LET filename == commonPatterns[aggPc[c].index]
         paperData == PaperOnServer(filename)
     IN  IF ~FetchThrows(filename) /\ ~JsonThrows(filename) /\ HasSubjectMetadata(paperData)
           THEN NextCandidate(c, Append(validPaperFiles[c], filename))
           ELSE NextCandidate(c, validPaperFiles[c])
  /\ UNCHANGED <<now, callsLeft, serverState, paperSubjectMap, filenameSubjectMap, currentSubject,
                 allRevisionQuestions, outsideAgg>>

\* a fetch of one of the later loops gave the paper: it settled, response.ok
\* holds and json() gave an object
PaperLoaded(filename) ==
  ~FetchThrows(filename) /\ FetchOk(filename) /\ ~JsonThrows(filename)

\* calculateRevisionCounts, first loop: the fetch of availableFiles[index] settles
CountsSubject ==
  /\ AtAwait("calculateRevisionCounts", "subjects")
  /\ LET c == "calculateRevisionCounts"
         filename == validPaperFiles[c][aggPc[c].index]
         paperData == PaperOnServer(filename)
     IN  /\ paperSubjectMap' =
              IF PaperLoaded(filename) /\ HasSubjectMetadata(paperData)
                THEN MapSet(paperSubjectMap, PaperIdOf(paperData), paperData.metadata.subject_name)
                ELSE paperSubjectMap
         /\ IF aggPc[c].index < Len(validPaperFiles[c])
              THEN GoTo(c, "subjects", aggPc[c].index + 1)
              ELSE GoTo(c, "filenames", 1)
  /\ UNCHANGED <<now, callsLeft, serverState, validPaperFiles, filenameSubjectMap, subjectRevisionCounts,
                 currentSubject, allRevisionQuestions, returnedQuestions, outsideAgg>>

\* calculateRevisionCounts, second loop: the fetch of availableFiles[index]
\* settles; after the last file the scan runs and the state is set
CountsFilename ==
  /\ AtAwait("calculateRevisionCounts", "filenames")
  /\ LET c == "calculateRevisionCounts"
         filename == validPaperFiles[c][aggPc[c].index]
         paperData == PaperOnServer(filename)
         byFilename == IF PaperLoaded(filename) /\ paperData.metadata.subject_name # ""
                         THEN MapSet(filenameSubjectMap, filename, paperData.metadata.subject_name)
                         ELSE filenameSubjectMap
     IN  /\ filenameSubjectMap' = byFilename
         /\ IF aggPc[c].index < Len(validPaperFiles[c])
              THEN GoTo(c, "filenames", aggPc[c].index + 1) /\ UNCHANGED subjectRevisionCounts
              ELSE CountsFinish(paperSubjectMap, byFilename)
  /\ UNCHANGED <<now, callsLeft, serverState, validPaperFiles, paperSubjectMap, currentSubject,
                 allRevisionQuestions, returnedQuestions, outsideAgg>>

\* a question of the result: the question with its _paperInfo
QuestionWithContext(question, filename, paperData) ==
  [question_no |-> question.question_no, sub_question_no |-> question.sub_question_no,
   marks |-> question.marks,
   paperInfo |-> [filename |-> filename, examination |-> paperData.metadata.examination,
                  subject_code |-> paperData.metadata.subject_code,
                  subject_name |-> paperData.metadata.subject_name,
                  paperId |-> PaperIdOf(paperData)]]

\* the questions of the paper that its stored revision array flags:
\* the filename key first, the paperId key if that one is absent
FlaggedQuestions(filename, paperData) ==
  LET stored == IF getRevisionItem(filename) # <<>> THEN getRevisionItem(filename)
                ELSE getRevisionItem(PaperIdOf(paperData))
      flagged == IF stored = <<>> THEN <<>>
                 ELSE SelectSeq(paperData.questions,
                                LAMBDA q : SetHas(stored[1], QuestionIdOf(q)))
  IN  [n \in 1..Len(flagged) |-> QuestionWithContext(flagged[n], filename, paperData)]

\* getAllRevisionQuestions: the fetch of availableFiles[index] settles; after
\* the last file the list is returned
CollectQuestions ==
  /\ AtAwait("getAllRevisionQuestions", "collect")
  /\ LET c == "getAllRevisionQuestions"
         filename == validPaperFiles[c][aggPc[c].index]
         paperData == PaperOnServer(filename)
         collected == IF /\ PaperLoaded(filename)
                         /\ paperData.metadata.subject_name = currentSubject
                         /\ paperData.metadata.subject_code # ""
                         /\ paperData.metadata.examination # ""
                        THEN allRevisionQuestions \o FlaggedQuestions(filename, paperData)
                        ELSE allRevisionQuestions
     IN  /\ allRevisionQuestions' = collected
         /\ IF aggPc[c].index < Len(validPaperFiles[c])
              THEN GoTo(c, "collect", aggPc[c].index + 1) /\ UNCHANGED returnedQuestions
              ELSE GoTo(c, "done", 0) /\ returnedQuestions' = <<collected>>
  /\ UNCHANGED <<now, callsLeft, serverState, validPaperFiles, paperSubjectMap, filenameSubjectMap,
                 subjectRevisionCounts, currentSubject, outsideAgg>>

\* ---- isQuestionMarkedForRevision / toggleQuestionRevision
\* An optional argument (questionPaperId?, filename?) is a sequence of length
\* 0 or 1.  Paper identifiers: the filenames, and the paperId format
\* subject_code + '_' + examination.
\* filename.includes('ip-')
IncludesIpDash(filename) == filename \in {"ip-1.json"}

\* questionPaperId.includes('3155204')
Includes3155204(questionPaperId) == questionPaperId \in {"3155204_SUMMER 2025"}

\* the key isQuestionMarkedForRevision reads (without 'revision-questions-')
LookupRevisionKey(questionPaperId, filename) ==
  IF filename # <<>> THEN filename[1]
  ELSE IF EndsWithJson(questionPaperId) THEN questionPaperId
  ELSE questionPaperId

\* the key toggleQuestionRevision reads and writes: without a filename and
\* with a questionPaperId that is no filename, the first stored filename key
\* that passes the scan's test is taken
ToggleRevisionKey(questionPaperId, filename) ==
  IF filename # <<>> THEN filename[1]
  ELSE IF EndsWithJson(questionPaperId) THEN questionPaperId
  ELSE LET existing == {k \in RevisionKeys :
                          /\ EndsWithJson(k)
                          /\ IncludesIpDash(k) /\ Includes3155204(questionPaperId)}
       IN  IF existing # {} THEN CHOOSE k \in existing : TRUE
                            ELSE questionPaperId

isQuestionMarkedForRevision(questionId, questionPaperId, filename) ==
  IF questionPaperId = <<>> THEN FALSE
  ELSE LET stored == getRevisionItem(LookupRevisionKey(questionPaperId[1], filename))
       IN  /\ stored # <<>>
           /\ \E n \in 1..Len(stored[1]) : stored[1][n] = questionId

\* toggleQuestionRevision(questionId, questionPaperId, filename); its last
\* call, calculateRevisionCounts(), runs up to its first fetch (a run that
\* is already in flight stands for it)
toggleQuestionRevision(questionId, questionPaperId, filename) ==
  /\ callsLeft > 0 /\ callsLeft' = callsLeft - 1
  /\ IF questionPaperId = <<>>
       THEN UNCHANGED <<revisionStore, aggPc>>
       ELSE LET revisionKey == ToggleRevisionKey(questionPaperId[1], filename)
                stored == getRevisionItem(revisionKey)
                revisionArray == IF stored # <<>> THEN stored[1] ELSE <<>>
                updated == IF \E n \in 1..Len(revisionArray) : revisionArray[n] = questionId
                             THEN SelectSeq(revisionArray, LAMBDA id : id # questionId)
                             ELSE Append(revisionArray, questionId)
            IN  /\ revisionStore' = [revisionStore EXCEPT ![revisionKey] = <<updated>>]
                /\ IF AtAwait("calculateRevisionCounts", "idle")
                     THEN GoTo("calculateRevisionCounts", "head", 1)
                     ELSE UNCHANGED aggPc
  /\ UNCHANGED <<revisionMounted, revisionQuestions, serverState, validPaperFiles,
                 paperSubjectMap, filenameSubjectMap, subjectRevisionCounts, currentSubject,
                 allRevisionQuestions, returnedQuestions, outsideCrossToggle>>

\* the identifiers a 'revision-questions-' key is stored or asked under
RevisionIdentifiers == Papers \cup {"ip-1.json", "3155204_SUMMER 2025"}

TogglePaperIds == {"A.json", "3155204_SUMMER 2025"}

ToggleFilenames == {<<>>, <<"A.json">>, <<"ip-1.json">>}

\* local storage as earlier toggles left it: every key absent or holding an
\* array
CrossRevisionStores == [RevisionIdentifiers -> {<<>>, << <<"1_a">> >>}]

\* 'revision-questions-{file}' as earlier visits left them
AggregationStores ==
  {[p \in Papers |-> <<>>],
   [p \in Papers |-> IF p = "A.json" THEN << <<"1_a">> >> ELSE << <<"2_b", "1_a">> >>],
   [p \in Papers |-> IF p = "A.json" THEN <<>> ELSE << <<"2_b">> >>]}

Subjects == {"IP", "DS"}

AggInit ==
  /\ serverState \in [CandidateFiles -> ServerStates]
  /\ aggPc = [c \in Computations |-> [stage |-> "idle", index |-> 0]]
  /\ validPaperFiles = [c \in Computations |-> <<>>]
  /\ paperSubjectMap = EmptyMap
  /\ filenameSubjectMap = EmptyMap
  /\ subjectRevisionCounts = EmptyMap
  /\ currentSubject = ""
  /\ allRevisionQuestions = <<>>
  /\ returnedQuestions = <<>>

AggIdle ==
  /\ serverState = [f \in CandidateFiles |-> "ok"]
  /\ aggPc = [c \in Computations |-> [stage |-> "idle", index |-> 0]]
  /\ validPaperFiles = [c \in Computations |-> <<>>]
  /\ paperSubjectMap = EmptyMap
  /\ filenameSubjectMap = EmptyMap
  /\ subjectRevisionCounts = EmptyMap
  /\ currentSubject = ""
  /\ allRevisionQuestions = <<>>
  /\ returnedQuestions = <<>>

\* -------------------------------------------------------------------- App
\* handlePaperSelect: the paperId prop of every mounted store changes, and
\* each mounted Revision Store and Rating Store re-runs its load effect for
\* the new key.
SelectPaper(filename) ==
  /\ filename # selectedPaperFile
  /\ selectedPaperFile' = filename
  /\ ratings' =
       [i \in RatingInstances |->
          IF i \in ratingMounted THEN LoadedRatings(ratings[i], filename) ELSE ratings[i]]
  /\ revisionQuestions' =
       [i \in RevisionInstances |->
          IF i \in revisionMounted
            THEN LoadedRevision(revisionQuestions[i], filename)
            ELSE revisionQuestions[i]]
  /\ UNCHANGED <<now, progressStore, activeStore, cleanupStore,
                 trackerMounted, questionProgress, activeSession, callsLeft,
                 quizVars, notesVars, revisionStore, revisionMounted, loaderVars, storageVars, statsVars, ratingStore, ratingMounted, aggVars, quizModeVars, timerVars, deckVars, studyVars, quizStateVars>>

\* ------------------------------------------------------- specifications
\* Spec: the Progress Tracker, every operation of the hook, through two
\* instances sharing localStorage.
Init ==
  /\ now = 0
  /\ TrackerInit
  /\ callsLeft = MaxCalls
  /\ QuizIdle
  /\ NotesIdle
  /\ RevisionIdle
  /\ LoaderIdle
  /\ StorageWorks
  /\ StatsIdle
  /\ RatingIdle
  /\ AggIdle
  /\ QuizModeIdle
  /\ TimerIdle
  /\ DeckIdle
  /\ StudyIdle
  /\ QuizStateIdle

Next ==
  \/ Tick
  \/ \E S \in SUBSET Trackers : \E first \in S : TrackerMount(S, first)
  \/ \E i \in Trackers : TrackerUnmount(i)
  \/ PageUnload
  \/ \E f \in Papers : SelectPaper(f)
  \/ \E i \in Trackers, q \in QuestionIds, ty \in SessionTypes : StartStudySession(i, q, ty)
  \/ \E i \in Trackers, q \in QuestionIds : EndStudySession(i, q)
  \/ \E i \in Trackers, q \in QuestionIds : MarkCompleted(i, q)
  \/ \E i \in Trackers, q \in QuestionIds : MarkIncomplete(i, q)
  \/ \E i \in Trackers, q \in QuestionIds, c \in ConfidenceInputs : UpdateConfidence(i, q, c)

Spec == Init /\ [][Next]_vars

\* SpecCard: every operation of the hook through one mounted instance, with
\* a longer history of calls.
InitCard ==
  /\ now = 0
  /\ TrackerInit
  /\ callsLeft = MaxCardCalls
  /\ QuizIdle
  /\ NotesIdle
  /\ RevisionIdle
  /\ LoaderIdle
  /\ StorageWorks
  /\ StatsIdle
  /\ RatingIdle
  /\ AggIdle
  /\ QuizModeIdle
  /\ TimerIdle
  /\ DeckIdle
  /\ StudyIdle
  /\ QuizStateIdle

NextCard ==
  \/ Tick
  \/ \E S \in SUBSET CardTrackers : \E first \in S : TrackerMount(S, first)
  \/ \E i \in CardTrackers : TrackerUnmount(i)
  \/ PageUnload
  \/ \E f \in Papers : SelectPaper(f)
  \/ \E i \in CardTrackers, q \in QuestionIds, ty \in SessionTypes : StartStudySession(i, q, ty)
  \/ \E i \in CardTrackers, q \in QuestionIds : EndStudySession(i, q)
  \/ \E i \in CardTrackers, q \in QuestionIds : MarkCompleted(i, q)
  \/ \E i \in CardTrackers, q \in QuestionIds : MarkIncomplete(i, q)
  \/ \E i \in CardTrackers, q \in QuestionIds, c \in ConfidenceInputs : UpdateConfidence(i, q, c)

SpecCard == InitCard /\ [][NextCard]_vars

\* SpecReload: study sessions across page unloads and reloads.
InitReload ==
  /\ now = 0
  /\ TrackerInit
  /\ callsLeft = MaxReloadCalls
  /\ QuizIdle
  /\ NotesIdle
  /\ RevisionIdle
  /\ LoaderIdle
  /\ StorageWorks
  /\ StatsIdle
  /\ RatingIdle
  /\ AggIdle
  /\ QuizModeIdle
  /\ TimerIdle
  /\ DeckIdle
  /\ StudyIdle
  /\ QuizStateIdle

NextReload ==
  \/ Tick
  \/ \E S \in SUBSET Trackers : \E first \in S : TrackerMount(S, first)
  \/ PageUnload
  \/ \E i \in Trackers, q \in QuestionIds, ty \in SessionTypes : StartStudySession(i, q, ty)
  \/ \E i \in Trackers, q \in QuestionIds : EndStudySession(i, q)

SpecReload == InitReload /\ [][NextReload]_vars

\* SpecQuiz: the Quiz History Store.
InitQuiz ==
  /\ now = 0
  /\ TrackerInit
  /\ callsLeft = MaxQuizCalls
  /\ QuizInit
  /\ NotesIdle
  /\ RevisionIdle
  /\ LoaderIdle
  /\ StorageWorks
  /\ StatsIdle
  /\ RatingIdle
  /\ AggIdle
  /\ QuizModeIdle
  /\ TimerIdle
  /\ DeckIdle
  /\ StudyIdle
  /\ QuizStateIdle

NextQuiz ==
  \/ Tick
  \/ \E h \in QuizInstances : QuizMount(h)
  \/ \E h \in QuizInstances : QuizUnmount(h)
  \/ \E h \in QuizInstances, n \in QuizLengths : StartQuizAttempt(h, n)
  \/ \E h \in QuizInstances, a \in 0..MaxAttempts, r \in ResultInputs : EndQuizAttempt(h, a, r)
  \/ \E h \in QuizInstances : \E a \in AttemptIds(attempts[h]) : HideAttempt(h, a)
  \/ \E h \in QuizInstances : \E a \in AttemptIds(attempts[h]) : ShowAttempt(h, a)
  \/ \E h \in QuizInstances : \E a \in AttemptIds(attempts[h]) : DeleteAttempt(h, a)
  \/ \E h \in QuizInstances : CleanupInvalidAttempts(h)

SpecQuiz == InitQuiz /\ [][NextQuiz]_vars

\* SpecNotes: the Notes Store.
InitNotes ==
  /\ now = 0
  /\ TrackerInit
  /\ callsLeft = MaxNoteCalls
  /\ QuizIdle
  /\ NotesInit
  /\ RevisionIdle
  /\ LoaderIdle
  /\ StorageWorks
  /\ StatsIdle
  /\ RatingIdle
  /\ AggIdle
  /\ QuizModeIdle
  /\ TimerIdle
  /\ DeckIdle
  /\ StudyIdle
  /\ QuizStateIdle

NextNotes ==
  \/ \E i \in NoteInstances : NotesMount(i)
  \/ \E i \in NoteInstances : NotesUnmount(i)
  \/ \E i \in NoteInstances, q \in QuestionIds, t \in NoteTexts, p \in NotePapers :
       setNote(i, q, t, p)
  \/ \E i \in NoteInstances, q \in QuestionIds, p \in NotePapers : clearNote(i, q, p)

SpecNotes == InitNotes /\ [][NextNotes]_vars

\* SpecRevision: the per-paper Revision Store.
InitRevision ==
  /\ now = 0
  /\ TrackerInit
  /\ callsLeft = MaxRevisionCalls
  /\ QuizIdle
  /\ NotesIdle
  /\ RevisionInit
  /\ LoaderIdle
  /\ StorageWorks
  /\ StatsIdle
  /\ RatingIdle
  /\ AggIdle
  /\ QuizModeIdle
  /\ TimerIdle
  /\ DeckIdle
  /\ StudyIdle
  /\ QuizStateIdle

NextRevision ==
  \/ \E i \in RevisionInstances : RevisionMount(i)
  \/ \E i \in RevisionInstances : RevisionUnmount(i)
  \/ \E f \in Papers : SelectPaper(f)
  \/ \E i \in RevisionInstances, q \in QuestionIds : toggleRevision(i, q)
  \/ \E i \in RevisionInstances, q \in QuestionIds : toggleRevisionTwice(i, q)

SpecRevision == InitRevision /\ [][NextRevision]_vars

\* SpecLoader: the Paper Loader.
InitLoader ==
  /\ now = 0
  /\ TrackerInit
  /\ callsLeft = 0
  /\ QuizIdle
  /\ NotesIdle
  /\ RevisionIdle
  /\ LoaderIdle
  /\ StorageWorks
  /\ StatsIdle
  /\ RatingIdle
  /\ AggIdle
  /\ QuizModeIdle
  /\ TimerIdle
  /\ DeckIdle
  /\ StudyIdle
  /\ QuizStateIdle

NextLoader ==
  \/ \E f \in LoaderFilenames : FilenameEffect(f)
  \/ \E f \in Papers, r \in Responses : FetchSettles(f, r)

SpecLoader == InitLoader /\ [][NextLoader]_vars

\* SpecStats: the dashboard's tracker instance and its derived statistics
InitStats ==
  /\ StatsInit
  /\ callsLeft = MaxStatsCalls
  /\ QuizIdle
  /\ NotesIdle
  /\ RevisionIdle
  /\ LoaderIdle
  /\ StorageWorks
  /\ RatingIdle
  /\ AggIdle
  /\ QuizModeIdle
  /\ TimerIdle
  /\ DeckIdle
  /\ StudyIdle
  /\ QuizStateIdle

NextStats ==
  \/ \E d \in SleepDays : TimePasses(d)
  \/ \E i \in DashboardTrackers : TrackerMount({i}, i)
  \/ \E i \in DashboardTrackers, q \in QuestionIds : StartStudySession(i, q, "study")
  \/ \E i \in DashboardTrackers, q \in QuestionIds : EndStudySession(i, q)
  \/ \E i \in DashboardTrackers, q \in QuestionIds : MarkCompleted(i, q)
  \/ \E i \in DashboardTrackers, q \in QuestionIds : MarkIncomplete(i, q)
  \/ \E i \in DashboardTrackers, q \in QuestionIds, c \in ConfidenceInputs : UpdateConfidence(i, q, c)

SpecStats == InitStats /\ [][NextStats]_vars

InitRating ==
  /\ now = 0
  /\ TrackerInit
  /\ callsLeft = MaxRatingCalls
  /\ QuizIdle
  /\ NotesIdle
  /\ RevisionIdle
  /\ LoaderIdle
  /\ StorageWorks
  /\ StatsIdle
  /\ RatingInit
  /\ AggIdle
  /\ QuizModeIdle
  /\ TimerIdle
  /\ DeckIdle
  /\ StudyIdle
  /\ QuizStateIdle

NextRating ==
  \/ \E i \in RatingInstances : RatingMount(i)
  \/ \E i \in RatingInstances : RatingUnmount(i)
  \/ \E i \in RatingInstances, q \in QuestionIds, r \in RatingInputs : setRating(i, q, r)
  \/ \E q \in QuestionIds, r \in RatingInputs, p \in Papers : setRatingForQuestion(q, r, p)

SpecRating == InitRating /\ [][NextRating]_vars

InitAggregation ==
  /\ now = 0
  /\ TrackerInit
  /\ callsLeft = 0
  /\ QuizIdle
  /\ NotesIdle
  /\ revisionStore \in AggregationStores
  /\ revisionMounted = {}
  /\ revisionQuestions = [i \in RevisionInstances |-> <<>>]
  /\ LoaderIdle
  /\ StorageWorks
  /\ StatsIdle
  /\ RatingIdle
  /\ AggInit
  /\ QuizModeIdle
  /\ TimerIdle
  /\ DeckIdle
  /\ StudyIdle
  /\ QuizStateIdle

NextAggregation ==
  \/ CalculateRevisionCounts
  \/ \E subject \in Subjects : GetAllRevisionQuestions(subject)
  \/ \E c \in Computations : DiscoverHead(c)
  \/ \E c \in Computations : DiscoverGet(c)
  \/ CountsSubject
  \/ CountsFilename
  \/ CollectQuestions

SpecAggregation == InitAggregation /\ [][NextAggregation]_vars

\* SpecCrossToggle: toggleQuestionRevision over every content of the
\* revision keys, and the count computation it starts
InitCrossToggle ==
  /\ now = 0
  /\ TrackerInit
  /\ callsLeft = MaxToggleCalls
  /\ QuizIdle
  /\ NotesIdle
  /\ revisionStore \in CrossRevisionStores
  /\ revisionMounted = {}
  /\ revisionQuestions = [i \in RevisionInstances |-> <<>>]
  /\ LoaderIdle
  /\ StorageWorks
  /\ StatsIdle
  /\ RatingIdle
  /\ AggInit
  /\ serverState = [f \in CandidateFiles |-> "ok"]
  /\ QuizModeIdle
  /\ TimerIdle
  /\ DeckIdle
  /\ StudyIdle
  /\ QuizStateIdle

NextCrossToggle ==
  \/ \E q \in QuestionIds, p \in TogglePaperIds, f \in ToggleFilenames :
       toggleQuestionRevision(q, <<p>>, f)
  \/ DiscoverHead("calculateRevisionCounts")
  \/ DiscoverGet("calculateRevisionCounts")
  \/ CountsSubject
  \/ CountsFilename

SpecCrossToggle == InitCrossToggle /\ [][NextCrossToggle]_vars

\* SpecStudy: the study view from the first render of App, whose paper is
\* being fetched
InitStudy ==
  /\ now = 0
  /\ TrackerInit
  /\ callsLeft = MaxStudyCalls
  /\ QuizIdle
  /\ NotesIdle
  /\ RevisionIdle
  /\ loaderFilename = <<selectedPaperFile>>
  /\ questionPaper = <<>>
  /\ loading = TRUE
  /\ error = <<>>
  /\ fetches = {selectedPaperFile}
  /\ StorageWorks
  /\ StatsIdle
  /\ RatingIdle
  /\ AggIdle
  /\ QuizModeIdle
  /\ TimerIdle
  /\ DeckIdle
  /\ StudyIdle
  /\ QuizStateIdle

NextStudy ==
  \/ SwipeHandleNext
  \/ SwipeHandlePrevious
  \/ NavTimerFires
  \/ OpenPaperSelector
  \/ \E f \in Papers : handlePaperSelect(f)
  \/ \E f \in Papers, ok \in BOOLEAN : StudyFetchSettles(f, ok)

SpecStudy == InitStudy /\ [][NextStudy]_vars

\* SpecWeakAreas: the dashboard's tracker instance over a paper with tagged
\* questions, and the confidence ratings given to them
InitWeakAreas ==
  /\ now = 0
  /\ TrackerInit
  /\ callsLeft = MaxWeakAreaCalls
  /\ QuizIdle
  /\ NotesIdle
  /\ RevisionIdle
  /\ LoaderIdle
  /\ StorageWorks
  /\ allQuestions = TaggedQuestions
  /\ RatingIdle
  /\ AggIdle
  /\ QuizModeIdle
  /\ TimerIdle
  /\ DeckIdle
  /\ StudyIdle
  /\ QuizStateIdle

NextWeakAreas ==
  \/ \E i \in DashboardTrackers : TrackerMount({i}, i)
  \/ \E i \in DashboardTrackers : TrackerUnmount(i)
  \/ \E i \in DashboardTrackers, q \in TaggedQuestionIds, c \in WeakAreaConfidences :
       UpdateConfidence(i, q, c)
  \/ \E i \in DashboardTrackers, q \in TaggedQuestionIds : MarkCompleted(i, q)

SpecWeakAreas == InitWeakAreas /\ [][NextWeakAreas]_vars

\* SpecConfidence: quiz mode's tracker instance and the two ratings quiz
\* mode feeds to it
InitConfidence ==
  /\ now = 0
  /\ TrackerInit
  /\ callsLeft = MaxConfidenceCalls
  /\ QuizIdle
  /\ NotesIdle
  /\ RevisionIdle
  /\ LoaderIdle
  /\ StorageWorks
  /\ StatsIdle
  /\ RatingIdle
  /\ AggIdle
  /\ QuizModeIdle
  /\ TimerIdle
  /\ DeckIdle
  /\ StudyIdle
  /\ QuizStateIdle

NextConfidence ==
  \/ TrackerMount({"card2"}, "card2")
  \/ TrackerUnmount("card2")
  \/ \E q \in QuestionIds, r \in QuizRatings : handleRating("card2", q, r)
  \/ \E q \in QuestionIds, r \in StarRatings : StarRatingChange("card2", q, r)

SpecConfidence == InitConfidence /\ [][NextConfidence]_vars

\* SpecCompletion: the dashboard's tracker instance (card1, which is passed
\* the questions of the paper) and quiz mode's (card2); the paper has two
\* questions and the stored progress is about them
InitCompletion ==
  /\ StatsInit
  /\ allQuestions = <<Question("1", "a", 7), Question("2", "b", 3)>>
  /\ \A p \in MapValues(IF progressStore = <<>> THEN EmptyMap ELSE progressStore[1]) :
       p.questionId \in QuestionIds
  /\ StudyIdle
  /\ QuizStateIdle
  /\ callsLeft = MaxCompletionCalls
  /\ QuizIdle
  /\ NotesIdle
  /\ RevisionIdle
  /\ LoaderIdle
  /\ StorageWorks
  /\ RatingIdle
  /\ AggIdle
  /\ QuizModeIdle
  /\ TimerIdle
  /\ DeckIdle

NextCompletion ==
  \/ \E i \in Trackers : TrackerMount({i}, i)
  \/ \E i \in Trackers : TrackerUnmount(i)
  \/ \E q \in QuestionIds : MarkCompleted("card2", q)
  \/ \E q \in QuestionIds : MarkIncomplete("card2", q)
  \/ \E q \in RevisionQuizQuestionIds : QuizNext("card2", q)
  \/ QuizTimerFires("card2")

SpecCompletion == InitCompletion /\ [][NextCompletion]_vars

\* SpecSession: one tracker instance, sessions opened by a question card and
\* by quiz mode
InitSession ==
  /\ now = 0
  /\ TrackerInit
  /\ callsLeft = MaxSessionCalls
  /\ QuizIdle
  /\ NotesIdle
  /\ RevisionIdle
  /\ LoaderIdle
  /\ StorageWorks
  /\ StatsIdle
  /\ RatingIdle
  /\ AggIdle
  /\ QuizModeIdle
  /\ TimerIdle
  /\ DeckIdle
  /\ StudyIdle
  /\ QuizStateIdle

NextSession ==
  \/ Tick
  \/ \E i \in CardTrackers : TrackerMount({i}, i)
  \/ \E i \in CardTrackers, q \in QuestionIds : StartStudySession(i, q, "study")
  \/ \E i \in CardTrackers, q \in QuestionIds : EndStudySession(i, q)
  \/ \E i \in CardTrackers, q \in QuestionIds : QuizNext(i, q)
  \/ \E i \in CardTrackers : QuizTimerFires(i)

SpecSession == InitSession /\ [][NextSession]_vars

\* SpecDeck: study mode with two question cards
InitDeck ==
  /\ now = 0
  /\ TrackerInit
  /\ callsLeft = MaxDeckCalls
  /\ QuizIdle
  /\ NotesIdle
  /\ RevisionIdle
  /\ LoaderIdle
  /\ StorageWorks
  /\ StatsIdle
  /\ RatingIdle
  /\ AggIdle
  /\ QuizModeIdle
  /\ TimerIdle
  /\ DeckIdle
  /\ StudyIdle
  /\ QuizStateIdle

NextDeck ==
  \/ Tick
  \/ DeckMount
  \/ \E delta \in {-1, 1} : DeckNavigate(delta)
  \/ \E i \in Trackers : SaveEffect(i)
  \/ DeckPageUnload

SpecDeck == InitDeck /\ [][NextDeck]_vars

InitQuizMode ==
  /\ now = 0
  /\ TrackerInit
  /\ callsLeft = MaxQuizModeCalls
  /\ QuizInit
  /\ NotesIdle
  /\ RevisionIdle
  /\ LoaderIdle
  /\ StorageWorks
  /\ StatsIdle
  /\ RatingIdle
  /\ AggIdle
  /\ QuizModeIdle
  /\ TimerIdle
  /\ DeckIdle
  /\ StudyIdle
  /\ QuizStateIdle

NextQuizMode ==
  \/ Tick
  \/ QuizMount("dashboard")
  \/ \E n \in QuizLengths : QuizModeMount(n)
  \/ \E r \in ResultInputs : QuizModeComplete(r)
  \/ \E n \in QuizLengths : QuizModeRetry(n)
  \/ QuizModeUnmount
  \/ QuizModePageUnload

SpecQuizMode == InitQuizMode /\ [][NextQuizMode]_vars

InitStorage ==
  /\ now = 0
  /\ TrackerInit
  /\ callsLeft = MaxStorageCalls
  /\ QuizIdle
  /\ NotesIdle
  /\ RevisionIdle
  /\ LoaderIdle
  /\ storageMode \in StorageModes
  /\ escaped = {}
  /\ StatsIdle
  /\ RatingIdle
  /\ AggIdle
  /\ QuizModeIdle
  /\ TimerIdle
  /\ DeckIdle
  /\ StudyIdle
  /\ QuizStateIdle

NextStorage ==
  \/ \E i \in Trackers : TrackerMountStorageFails(i)
  \/ \E i \in Trackers, q \in QuestionIds, ty \in SessionTypes :
       StartStudySessionStorageFails(i, q, ty)
  \/ \E i \in Trackers, q \in QuestionIds :
       UpdateStorageFails(i, q, [completed |-> TRUE, completedAt |-> now])
  \/ \E i \in Trackers, q \in QuestionIds, c \in ConfidenceInputs :
       UpdateStorageFails(i, q, [confidenceLevel |-> c])
  \/ PageUnloadStorageFails
  \/ ThemeProviderMountStorageFails
  \/ \E i \in NoteInstances : NotesMountStorageFails(i)
  \/ \E i \in NoteInstances, q \in QuestionIds, t \in NoteTexts, p \in NotePapers :
       SetNoteStorageFails(i, q, t, p)
  \/ \E i \in RevisionInstances : RevisionMountStorageFails(i)
  \/ \E i \in RevisionInstances, q \in QuestionIds : ToggleRevisionStorageFails(i, q)

SpecStorage == InitStorage /\ [][NextStorage]_vars

\* ----------------------------------------------------------------- claims
StoredProgress == IF progressStore = <<>> THEN EmptyMap ELSE progressStore[1]

ProgressMutation(i, q) ==
  \/ \E ty \in SessionTypes : StartStudySession(i, q, ty)
  \/ EndStudySession(i, q)
  \/ MarkCompleted(i, q)
  \/ MarkIncomplete(i, q)
  \/ \E c \in ConfidenceInputs : UpdateConfidence(i, q, c)

\* C1: a mutation issued through any tracker instance for one question never
\* discards or alters the record persisted for a different (paper, question)
\* key: every other key of 'progress-tracking-global' keeps its record.
C1_NoLostUpdate ==
  [][\A i \in Trackers, q \in QuestionIds :
       ProgressMutation(i, q) =>
         \A k \in DOMAIN StoredProgress :
           k # createGlobalKey(q, selectedPaperFile) =>
             /\ k \in DOMAIN StoredProgress'
             /\ StoredProgress'[k] = StoredProgress[k]]_vars

SameInterval(a, b) ==
  /\ a.startTime = b.startTime
  /\ a.sessionType = b.sessionType
  /\ a.endTime > a.startTime
  /\ b.endTime > b.startTime

CountedOnce(m) ==
  \A k \in DOMAIN m :
    LET sessions == m[k].studySessions
    IN  \A a, b \in 1..Len(sessions) :
          a < b => ~SameInterval(sessions[a], sessions[b])

\* C5: a session that was open at a page unload is folded into its question
\* exactly once: no record, persisted or held by a tracker, ever contains two
\* StudySessions that both start at that session's start time and cover the
\* interrupted interval.
C5_InterruptedSessionFoldedOnce ==
  /\ CountedOnce(StoredProgress)
  /\ \A t \in Trackers : CountedOnce(questionProgress[t])

C10_StartSession ==
  [][\A i \in Trackers, q \in QuestionIds, ty \in SessionTypes :
       StartStudySession(i, q, ty) =>
         LET key == createGlobalKey(q, selectedPaperFile)
             before == getQuestionProgress(i, q)
             after == getQuestionProgress(i, q)'
         IN  /\ activeSession'[i] = <<[questionId |-> q, paperId |-> selectedPaperFile,
                                       startTime |-> now, sessionType |-> ty]>>
             /\ after.reviewCount = before.reviewCount + 1
             /\ after.lastStudied = now
             /\ after.completed = before.completed
             /\ after.completedAt = before.completedAt
             /\ after.confidenceLevel = before.confidenceLevel
             /\ after.timeSpent = before.timeSpent
             /\ after.studySessions = before.studySessions
             /\ DOMAIN questionProgress'[i] = DOMAIN questionProgress[i] \cup {key}
             /\ \A k \in DOMAIN questionProgress[i] \ {key} :
                  questionProgress'[i][k] = questionProgress[i][k]]_vars

\* C10 witness: a session was started on a question already marked completed
C10_Witness ==
  \E i \in trackerMounted :
    /\ activeSession[i] # <<>>
    /\ activeSession[i][1].paperId = selectedPaperFile
    /\ LET r == getQuestionProgress(i, activeSession[i][1].questionId)
       IN  /\ r.completed
           /\ r.reviewCount = 1
           /\ r.lastStudied = activeSession[i][1].startTime
           /\ r.lastStudied > r.completedAt

StoredAttempts == IF quizStore = <<>> THEN <<>> ELSE quizStore[1]

\* the attempt as startAttempt is said to store it
FreshAttempt(a, attemptId, totalQuestions) ==
  /\ a.id = attemptId
  /\ a.duration = 0
  /\ a.correctAnswers = 0
  /\ a.score = 0
  /\ a.questions = <<>>
  /\ a.totalQuestions = totalQuestions
  /\ a.isHidden = FALSE

\* C2 (as stated): directly after startAttempt the persisted 'quiz-history'
\* list contains the new attempt (returned id, duration 0, correctAnswers 0,
\* score 0, empty result list, totalQuestions as passed, not hidden).
C2_StartPersistsAttempt ==
  [][\A h \in QuizInstances, n \in QuizLengths :
       StartQuizAttempt(h, n) =>
         \E k \in 1..Len(StoredAttempts') :
           FreshAttempt(StoredAttempts'[k], nextAttemptId, n)]_vars

\* C2 (amended): directly after startAttempt the new attempt is the last
\* element of the calling instance's in-memory list, with the stated fields;
\* the persisted list written by the call does not contain its id.
C2_StartKeepsAttemptInMemory ==
  [][\A h \in QuizInstances, n \in QuizLengths :
       StartQuizAttempt(h, n) =>
         /\ Len(attempts'[h]) = Len(attempts[h]) + 1
         /\ SubSeq(attempts'[h], 1, Len(attempts[h])) = attempts[h]
         /\ FreshAttempt(attempts'[h][Len(attempts'[h])], nextAttemptId, n)
         /\ quizStore' # <<>>
         /\ nextAttemptId \notin AttemptIds(StoredAttempts')]_vars

\* C2 witness: a started attempt is in memory and absent from storage
C2_Witness ==
  \E h \in quizMounted :
    \E k \in 1..Len(attempts[h]) :
      /\ attempts[h][k].id >= 1
      /\ FreshAttempt(attempts[h][k], attempts[h][k].id, attempts[h][k].totalQuestions)
      /\ quizStore # <<>>
      /\ attempts[h][k].id \notin AttemptIds(StoredAttempts)

AttemptOf(list, attemptId) ==
  list[CHOOSE k \in 1..Len(list) : list[k].id = attemptId]

ExcludedAfter(h, attemptId) ==
  /\ attemptId \notin AttemptIds(attempts'[h])
  /\ attemptId \notin AttemptIds(visibleAttempts(h)')
  /\ attemptId \notin AttemptIds(StoredAttempts')

\* C3 (as stated): whatever time has passed since startAttempt, endAttempt
\* with an empty result list leaves the attempt absent from the in-memory
\* list, from visibleAttempts and from the persisted list.
C3_EmptyEndAlwaysExcluded ==
  [][\A h \in QuizInstances, a \in 0..MaxAttempts :
       (EndQuizAttempt(h, a, <<>>) /\ a \in AttemptIds(attempts[h])) =>
         ExcludedAfter(h, a)]_vars

\* C3 (amended): endAttempt with an empty result list excludes the attempt
\* exactly when less than half a second has passed since its start (the
\* duration rounds to 0); otherwise the attempt stays in memory and in the
\* persisted list with a duration of at least 1, no results and score 0.
C3_EmptyEndExcludedIffInstant ==
  [][\A h \in QuizInstances, a \in 0..MaxAttempts :
       (EndQuizAttempt(h, a, <<>>) /\ a \in AttemptIds(attempts[h])) =>
         LET started == AttemptOf(attempts[h], a).startTime
         IN  IF now - started < 1
               THEN ExcludedAfter(h, a)
               ELSE /\ a \in AttemptIds(attempts'[h])
                    /\ a \in AttemptIds(StoredAttempts')
                    /\ LET kept == AttemptOf(StoredAttempts', a)
                       IN  /\ kept = AttemptOf(attempts'[h], a)
                           /\ kept.duration >= 1
                           /\ kept.questions = <<>>
                           /\ kept.correctAnswers = 0
                           /\ kept.score = 0]_vars

\* C3 witness: an attempt ended with no results is still listed and stored
C3_Witness ==
  \E h \in quizMounted :
    \E k \in 1..Len(attempts[h]) :
      /\ attempts[h][k].id >= 1
      /\ attempts[h][k].questions = <<>>
      /\ attempts[h][k].duration = 1
      /\ attempts[h][k].endTime = now
      /\ attempts[h][k].id \in AttemptIds(StoredAttempts)

QuizHistoryStep ==
  \E h \in QuizInstances :
    \/ QuizMount(h) /\ quizStore # <<>>
    \/ \E n \in QuizLengths : StartQuizAttempt(h, n)
    \/ \E a \in 0..MaxAttempts, r \in ResultInputs : EndQuizAttempt(h, a, r)
    \/ \E a \in 0..MaxAttempts : HideAttempt(h, a) \/ ShowAttempt(h, a) \/ DeleteAttempt(h, a)
    \/ CleanupInvalidAttempts(h)

NoInvalidStored ==
  \A k \in 1..Len(StoredAttempts) :
    ~ /\ StoredAttempts[k].duration = 0
      /\ StoredAttempts[k].questions = <<>>
      /\ StoredAttempts[k].correctAnswers = 0
      /\ StoredAttempts[k].score = 0

\* C4: after a load of stored history and after every mutating Quiz History
\* operation the persisted 'quiz-history' list holds no invalid attempt
\* (duration 0, no results, correctAnswers 0, score 0), and it stays so.
C4_NoInvalidAttemptStored ==
  [][(QuizHistoryStep \/ NoInvalidStored) => NoInvalidStored']_vars

\* C4 witness: a list that held an invalid attempt has been loaded and a new
\* attempt started, and the persisted list is an empty list
C4_Witness ==
  /\ quizStore = << <<>> >>
  /\ \E h \in quizMounted : Len(attempts[h]) = 1 /\ isInvalidAttempt(attempts[h][1])

\* ---- Notes Store
\* the text persisted under key, if any
StoredNote(key) ==
  IF notesStore # <<>> /\ key \in DOMAIN notesStore[1]
    THEN <<notesStore[1][key]>> ELSE <<>>

\* a set or clear call, through any instance, on a key other than (p, q)
CallOnOtherNote(q, p) ==
  \E i \in NoteInstances, q2 \in QuestionIds, p2 \in NotePapers :
    /\ <<q2, p2>> # <<q, p>>
    /\ \/ clearNote(i, q2, p2)
       \/ \E t \in NoteTexts : setNote(i, q2, t, p2)

\* C6: a note persisted under p::q stays in 'gtu-learn-notes-v1' with its
\* text across every set or clear call on another (paper, question) key,
\* whichever Notes Store instance issues the call.
C6_NoteKeptByOtherCalls ==
  [][\A q \in QuestionIds, p \in NotePapers :
       (StoredNote(createNoteId(q, p)) # <<>> /\ CallOnOtherNote(q, p))
         => StoredNote(createNoteId(q, p))' = StoredNote(createNoteId(q, p))]_vars

\* the keys held in storage all carry the '::' separator
StorageNamespaced ==
  notesStore # <<>> => \A key \in DOMAIN notesStore[1] : IncludesSeparator(key)

\* C8: a load of the Notes Store rewrites every stored key without '::' as
\* default:: + key with the same text, in the instance's map and in storage
\* during that same load, so that storage holds only namespaced keys after it.
C8_MigrationWrittenBack ==
  [][\A i \in NoteInstances :
       (NotesMount(i) /\ notesStore # <<>>)
         => /\ StorageNamespaced'
            /\ \A key \in DOMAIN notesStore[1] :
                 /\ MigratedNoteId(key) \in DOMAIN notes'[i]
                 /\ notes'[i][MigratedNoteId(key)] = notesStore[1][key]
                 /\ StoredNote(MigratedNoteId(key))' = <<notesStore[1][key]>>]_vars

\* ---- Revision Store
\* membership of r in the persisted array 'revision-questions-{paper}'
StoredFlag(paper, r) ==
  revisionStore[paper] # <<>> /\ SetHas(revisionStore[paper][1], r)

\* C7: toggle(q) leaves the persisted membership of every other question of
\* the paper as it was, flags persisted through another instance included.
C7_ToggleChangesOnlyQ ==
  [][\A i \in RevisionInstances, q \in QuestionIds :
       toggleRevision(i, q)
         => \A r \in QuestionIds \ {q} :
              StoredFlag(selectedPaperFile, r)' <=> StoredFlag(selectedPaperFile, r)]_vars

\* ---- Paper Loader
\* a body that parses as JSON to an object holding metadata and questions
WellFormedPaper(body) ==
  /\ body.parsed # <<>>
  /\ body.parsed[1].type = "object"
  /\ body.parsed[1].metadata
  /\ body.parsed[1].questions # "absent"

\* the responses the loader has to refuse: status 404, another non-2xx
\* status, a body that starts with '<' or does not parse, a parsed body that
\* is not an object with metadata and questions
MustFail(response) ==
  \/ ~ResponseOk(response)
  \/ response.body.startsWithLt
  \/ ~WellFormedPaper(response.body)

\* C11: a load whose response is one of the refused cases ends with an error
\* set, without that response becoming the exposed QuestionPaper, and with
\* loading false; loading is false after every settled load.
C11_LoaderErrorTaxonomy ==
  [][\A f \in Papers, r \in Responses :
       FetchSettles(f, r) =>
         /\ loading' = FALSE
         /\ (~r.rejected /\ MustFail(r)) =>
              /\ error' # <<>>
              /\ questionPaper' \in {questionPaper, <<>>}]_vars

\* ---- localStorage failures
\* C12: no exception raised by a localStorage access during a store
\* operation or a store effect leaves the store.
C12_StorageErrorsCaught == escaped = {}

\* ---- Revision Store: toggle twice
\* the persisted array of a paper read as a set
StoredRevisionSet(paper) ==
  IF revisionStore[paper] = <<>> THEN {}
  ELSE {revisionStore[paper][1][n] : n \in 1..Len(revisionStore[paper][1])}

\* C13: a single toggle(q) flips isMarked(q) and changes count() by exactly
\* one, count() is never negative, and two toggles of q in a row on one
\* Revision Store leave isMarked(q) and the persisted array of the paper, as
\* a set, as they were before.
C13_ToggleInvolution ==
  [][\A i \in RevisionInstances, q \in QuestionIds :
       /\ toggleRevision(i, q) =>
            /\ isMarkedForRevision(i, q)' = ~isMarkedForRevision(i, q)
            /\ getRevisionCount(i)' \in {getRevisionCount(i) + 1, getRevisionCount(i) - 1}
            /\ getRevisionCount(i)' >= 0
       /\ toggleRevisionTwice(i, q) =>
            /\ isMarkedForRevision(i, q)' = isMarkedForRevision(i, q)
            /\ getRevisionCount(i)' = getRevisionCount(i)
            /\ StoredRevisionSet(selectedPaperFile)' = StoredRevisionSet(selectedPaperFile)]_vars

\* ---- Notes Store: round trip
\* get(q, p2) for every other paper p2 is what it was
OtherPapersUnaffected(i, q, p) ==
  \A p2 \in NotePapers \ {p} : getNote(i, q, p2)' = getNote(i, q, p2)

\* C14: after set(q, t, p) get(q, p) on the same Notes Store returns t, after
\* clear(q, p) it returns the empty string, and neither call changes what
\* get(q, p2) returns for another paper p2.
C14_NotesRoundTrip ==
  [][\A i \in NoteInstances, q \in QuestionIds, p \in NotePapers :
       /\ \A t \in NoteTexts :
            setNote(i, q, t, p) => (getNote(i, q, p)' = t /\ OtherPapersUnaffected(i, q, p))
       /\ clearNote(i, q, p) => (getNote(i, q, p)' = "" /\ OtherPapersUnaffected(i, q, p))]_vars

\* C14 witness: one instance returns different notes for the same question
\* under two papers, and the empty string for a question it holds no note of
C14_Witness ==
  \E i \in notesMounted, q \in QuestionIds :
    /\ getNote(i, q, "A.json") = "foo"
    /\ getNote(i, q, "default") = "bar"
    /\ \E q2 \in QuestionIds \ {q} :
         /\ createNoteId(q2, "A.json") \notin DOMAIN notes[i]
         /\ getNote(i, q2, "A.json") = ""
         /\ callsLeft = 0

\* ---- Quiz History: score of a finished attempt
\* C15: endAttempt sets score = round(100 * earnedMarks / totalMarks), 0 when
\* totalMarks = 0; the score is an integer in 0..100, correctAnswers is the
\* number of correct results, and two 5-mark questions with one correct give 50.
C15_ScoreFormula ==
  [][\A h \in QuizInstances, a \in 0..MaxAttempts, r \in ResultInputs :
       (/\ EndQuizAttempt(h, a, r)
        /\ a \in AttemptIds(attempts[h])
        /\ a \in AttemptIds(attempts'[h])) =>
         LET finished == AttemptOf(attempts'[h], a)
             totalMarks == SumMarks(r)
             earnedMarks == SumMarks(CorrectResults(r))
         IN  /\ finished.score =
                  IF totalMarks > 0 THEN MathRound(100 * earnedMarks, totalMarks) ELSE 0
             /\ finished.score \in 0..100
             /\ finished.correctAnswers = Cardinality({n \in 1..Len(r) : r[n].isCorrect})
             /\ (r = <<Result(5, TRUE), Result(5, FALSE)>> => finished.score = 50)]_vars

\* ---- Progress Tracker: exam readiness
\* how many of (completed, confidence >= 4, last studied within 7 days) hold
\* for the question under the current paper
Points(i, question) ==
  LET progress == getQuestionProgress(i, QuestionIdOf(question))
  IN  Cardinality({f \in {"completed", "confident", "recent"} :
        \/ f = "completed" /\ progress.completed
        \/ f = "confident" /\ progress.confidenceLevel >= 4
        \/ f = "recent" /\ progress.lastStudied # NoDate
                        /\ now - progress.lastStudied < 7 * HalfSecondsPerDay})

RECURSIVE WeightedPoints(_, _)
WeightedPoints(i, questions) ==
  IF questions = <<>> THEN 0
  ELSE Points(i, Head(questions)) * Head(questions).marks + WeightedPoints(i, Tail(questions))

RECURSIVE TotalMarks(_)
TotalMarks(questions) ==
  IF questions = <<>> THEN 0 ELSE Head(questions).marks + TotalMarks(Tail(questions))

\* C16: over a non-empty question list with positive marks examReadiness is
\* round(100 * sum(points_q * marks_q) / sum(3 * marks_q)); it is 0 when no
\* question has any progress, 100 when every question has all three points,
\* always within 0..100, and 0 for an empty question list.
C16_ExamReadiness ==
  \A i \in trackerMounted :
    LET readiness == calculateExamReadiness(i)
        all == {allQuestions[n] : n \in 1..Len(allQuestions)}
    IN  /\ readiness \in 0..100
        /\ allQuestions = <<>> => readiness = 0
        /\ allQuestions # <<>> =>
             /\ readiness = MathRound(100 * WeightedPoints(i, allQuestions),
                                      3 * TotalMarks(allQuestions))
             /\ (\A q \in all : Points(i, q) = 0) => readiness = 0
             /\ (\A q \in all : Points(i, q) = 3) => readiness = 100

\* ---- Progress Tracker: streak
\* the days on which the records of instance i show a study event: the start
\* of every recorded session and every lastStudied
StudyDays(i) ==
  UNION {{DayStart(p.lastStudied) : x \in {y \in {p} : p.lastStudied # NoDate}}
         \cup {DayStart(p.studySessions[n].startTime) : n \in 1..Len(p.studySessions)}
         : p \in MapValues(questionProgress[i])}

\* the number of consecutive days of the set, counted back from its latest
ConsecutiveDays(days) ==
  IF days = {} THEN 0
  ELSE LET latest == CHOOSE d \in days : \A e \in days : e <= d
       IN  CHOOSE n \in 1..Cardinality(days) :
             /\ \A k \in 0..(n - 1) : latest - k * HalfSecondsPerDay \in days
             /\ latest - n * HalfSecondsPerDay \notin days

\* C17: stats.streak is the number of consecutive calendar days with a study
\* event, counted back from the most recent study day, and 0 when that day is
\* neither today nor yesterday; events on today, yesterday and the day before
\* give 3, whichever questions they were on.
C17_Streak ==
  \A i \in trackerMounted :
    LET days == StudyDays(i)
        today == DayStart(now)
        latestIsRecent == \E d \in days : /\ \A e \in days : e <= d
                                          /\ d \in {today, today - HalfSecondsPerDay}
    IN  calculateStreak(i) = IF latestIsRecent THEN ConsecutiveDays(days) ELSE 0

\* ---- Rating Store: persistence
\* the rating 'question-ratings-{p}' holds for q, if any
StoredRating(p, q) ==
  IF ratingStore[p] # <<>> /\ q \in DOMAIN ratingStore[p][1]
    THEN <<ratingStore[p][1][q]>> ELSE <<>>

\* a rating call on another question of the current paper, through any
\* Rating Store instance or quiz mode's direct write, or on another paper
RatingCallElsewhere(q) ==
  \E q2 \in QuestionIds, r \in RatingInputs :
    \/ q2 # q /\ \E j \in RatingInstances : setRating(j, q2, r)
    \/ \E p2 \in Papers : <<p2, q2>> # <<selectedPaperFile, q>> /\ setRatingForQuestion(q2, r, p2)

\* C18: after setRating(q, r) under paper p getRating(q) returns r and
\* 'question-ratings-{p}' maps q to r, and both stay so across every rating
\* call for another question of p (through any instance of p or quiz mode's
\* direct write) or for another paper; getRating is 0 for a question never
\* rated under p.
C18_RatingPersists ==
  [][\A i \in RatingInstances, q \in QuestionIds :
       /\ \A r \in RatingInputs :
            setRating(i, q, r) =>
              /\ getRating(i, q)' = r
              /\ StoredRating(selectedPaperFile, q)' = <<r>>
       /\ (i \in ratingMounted /\ StoredRating(selectedPaperFile, q) = <<getRating(i, q)>>
             /\ RatingCallElsewhere(q)) =>
              /\ getRating(i, q)' = getRating(i, q)
              /\ StoredRating(selectedPaperFile, q)' = StoredRating(selectedPaperFile, q)
       /\ (i \in ratingMounted /\ StoredRating(selectedPaperFile, q) = <<>>
             /\ q \notin DOMAIN ratings[i]) => getRating(i, q) = 0]_vars

\* ---- Cross-paper revision: partial failure
\* the candidate files no fetch of which fails
LoadedFiles == {f \in CandidateFiles : serverState[f] \notin FetchFailures}

SubjectOf(filename) == PaperOnServer(filename).metadata.subject_name

\* the size of the revision set stored for the file
RevisionSetSize(filename) ==
  IF getRevisionItem(filename) = <<>> THEN 0
  ELSE Cardinality({getRevisionItem(filename)[1][n] : n \in 1..Len(getRevisionItem(filename)[1])})

RECURSIVE SumOfSizes(_)
SumOfSizes(files) ==
  IF files = {} THEN 0
  ELSE LET f == CHOOSE x \in files : TRUE
       IN  RevisionSetSize(f) + SumOfSizes(files \ {f})

\* the questions of the loaded files of the subject that their revision sets flag
ExpectedQuestions(subject) ==
  {x \in LoadedFiles \X QuestionIds :
     /\ SubjectOf(x[1]) = subject
     /\ getRevisionItem(x[1]) # <<>>
     /\ SetHas(getRevisionItem(x[1])[1], x[2])
     /\ \E n \in 1..Len(PaperOnServer(x[1]).questions) :
          QuestionIdOf(PaperOnServer(x[1]).questions[n]) = x[2]}

FinalizedFields(list, attemptId) ==
  LET a == AttemptOf(list, attemptId)
  IN  <<a.questions, a.score, a.correctAnswers>>

\* C20: an attempt finalized by completing the quiz keeps its stored result
\* list, score and correctAnswers through Retry, through leaving quiz mode
\* (unmount) and through a page unload.
C20_FinalizedAttemptKept ==
  [][\A a \in 1..MaxAttempts :
       (/\ quizCompleted /\ currentAttemptId = <<a>>
        /\ a \in AttemptIds(StoredAttempts)
        /\ \/ \E n \in QuizLengths : QuizModeRetry(n)
           \/ QuizModeUnmount
           \/ QuizModePageUnload) =>
         /\ a \in AttemptIds(StoredAttempts')
         /\ FinalizedFields(StoredAttempts', a) = FinalizedFields(StoredAttempts, a)]_vars

\* ---- Progress Tracker: sessions that stop being open
\* the session s of instance i has been recorded by this step: one
\* StudySession with its start time appended to its question, its duration
\* added to timeSpent
SessionRecorded(i, s) ==
  LET globalKey == createGlobalKey(s.questionId, s.paperId)
      before == MapGet(questionProgress[i], globalKey, NewProgress(s.questionId, s.paperId))
      after == MapGet(questionProgress'[i], globalKey, NewProgress(s.questionId, s.paperId))
      n == Len(after.studySessions)
  IN  /\ n = Len(before.studySessions) + 1
      /\ SubSeq(after.studySessions, 1, n - 1) = before.studySessions
      /\ after.studySessions[n].startTime = s.startTime
      /\ after.timeSpent = before.timeSpent + after.studySessions[n].duration

\* C21: a session opened by startSession is either still the open session or
\* has been recorded: in the step in which it stops being the open session of
\* its (still mounted) instance, exactly one StudySession for it is appended
\* to its question and its duration added to timeSpent.
C21_NoStudyTimeDropped ==
  [][\A i \in CardTrackers :
       (/\ i \in trackerMounted /\ i \in trackerMounted'
        /\ activeSession[i] # <<>>
        /\ activeSession'[i] # activeSession[i]) =>
         SessionRecorded(i, activeSession[i][1])]_vars

\* ---- Progress Tracker: the stored active session
\* C22: once the persistence effects of a commit have run, the
\* 'active-study-session' entry holds the open session of every mounted
\* instance that holds one.
C22_OpenSessionStored ==
  savePending = {} =>
    \A i \in trackerMounted : activeSession[i] # <<>> => activeStore = activeSession[i]

\* ---- Quiz History: memory and storage
\* id, isHidden, score and result list of the attempts of a list
AttemptSummaries(list) ==
  {<<list[n].id, list[n].isHidden, list[n].score, list[n].questions>> : n \in 1..Len(list)}

\* instance h performs a mutating operation in this step
QuizMutation(h) ==
  \/ \E n \in QuizLengths : StartQuizAttempt(h, n)
  \/ \E a \in 0..MaxAttempts, r \in ResultInputs : EndQuizAttempt(h, a, r)
  \/ \E a \in AttemptIds(attempts[h]) : HideAttempt(h, a)
  \/ \E a \in AttemptIds(attempts[h]) : ShowAttempt(h, a)
  \/ \E a \in AttemptIds(attempts[h]) : DeleteAttempt(h, a)
  \/ CleanupInvalidAttempts(h) /\ attempts'[h] # attempts[h]

\* C23 as stated: after every mutating operation of an instance its
\* in-memory list and the persisted list hold the same attempt ids with the
\* same isHidden, score and result list.
C23_MemoryEqualsStorage ==
  [][\A h \in QuizInstances :
       QuizMutation(h) => AttemptSummaries(attempts'[h]) = AttemptSummaries(StoredAttempts')]_vars

\* C23 amended: after every mutating operation of an instance the persisted
\* list holds exactly the attempts of its in-memory list that are not invalid,
\* with the same isHidden, score and result list; an attempt that was started
\* and not yet ended is in memory only.
C23_StorageIsValidMemory ==
  [][\A h \in QuizInstances :
       QuizMutation(h) =>
         /\ AttemptSummaries(ValidAttempts(attempts'[h])) = AttemptSummaries(StoredAttempts')
         /\ \A n \in 1..Len(attempts'[h]) :
              isInvalidAttempt(attempts'[h][n]) => attempts'[h][n].id \notin AttemptIds(StoredAttempts')]_vars

\* an instance holds a finished attempt next to one just started
C23_Witness ==
  \E h \in quizMounted :
    /\ \E n \in 1..Len(attempts[h]) : isInvalidAttempt(attempts[h][n])
    /\ \E n \in 1..Len(attempts[h]) : ~isInvalidAttempt(attempts[h][n])
    /\ quizStore # <<>> /\ Len(quizStore[1]) = 1

\* ---- Paper Loader: a selection made while a fetch is in flight
\* C24: a response for a filename that is no longer the selected one never
\* replaces the exposed paper or error, and the response for the selected
\* filename decides them: its data with no error, or its error.
C24_LatestSelectionWins ==
  [][\A f \in Papers, r \in Responses :
       FetchSettles(f, r) =>
         IF loaderFilename # <<f>>
           THEN questionPaper' = questionPaper /\ error' = error
           ELSE LET outcome == LoadOutcome(r)
                IN  IF outcome.threw
                      THEN error' = <<outcome.message>>
                      ELSE questionPaper' = <<outcome.data>> /\ error' = <<>>]_vars

\* ---- Cross-paper revision: toggle and lookup
\* C25: toggleQuestionRevision(q, p, f) flips what
\* isQuestionMarkedForRevision(q, p, f) returns for the same arguments.
C25_ToggleFlipsLookup ==
  [][\A q \in QuestionIds, p \in TogglePaperIds, f \in ToggleFilenames :
       toggleQuestionRevision(q, <<p>>, f) =>
         isQuestionMarkedForRevision(q, <<p>>, f)' = ~isQuestionMarkedForRevision(q, <<p>>, f)]_vars

\* ---- Progress Tracker: completed and total questions
\* C26: for the instance that is passed the questions of the current paper,
\* stats.completedQuestions <= stats.totalQuestions once the paper is loaded.
C26_CompletedWithinTotal ==
  \A i \in DashboardTrackers \cap trackerMounted :
    allQuestions # <<>> => statsCompletedQuestions(i) <= statsTotalQuestions

\* ---- Study view: the index of the displayed question
\* C27: whenever the study view displays a paper with at least one
\* question, 0 <= currentQuestionIndex <= questions.length - 1.
C27_IndexWithinPaper ==
  DisplayShown =>
    /\ 0 <= currentQuestionIndex
    /\ currentQuestionIndex <= Len(questionPaper[1].questions) - 1

\* ---- Progress Tracker: markCompleted, markIncomplete, updateConfidence
\* the fields of q's record other than those named, every other record, and
\* the open session are the same before and after the step of instance i
OnlyFieldsChange(i, q, fields) ==
  LET key == createGlobalKey(q, selectedPaperFile)
      before == getQuestionProgress(i, q)
      after == getQuestionProgress(i, q)'
  IN  /\ \A f \in DOMAIN before \ fields : after[f] = before[f]
      /\ DOMAIN after = DOMAIN before
      /\ DOMAIN questionProgress'[i] = DOMAIN questionProgress[i] \cup {key}
      /\ \A k \in DOMAIN questionProgress[i] \ {key} :
           questionProgress'[i][k] = questionProgress[i][k]
      /\ UNCHANGED <<activeSession, activeStore>>

\* C28: markCompleted(q) sets completed with the completion time,
\* markIncomplete(q) clears both, updateConfidence(q, level) sets
\* confidenceLevel; each changes nothing else of q's record, no other record
\* and not the open session.
C28_UpdateFrame ==
  [][\A i \in Trackers, q \in QuestionIds :
       /\ MarkCompleted(i, q) =>
            /\ getQuestionProgress(i, q)'.completed = TRUE
            /\ getQuestionProgress(i, q)'.completedAt = now
            /\ OnlyFieldsChange(i, q, {"completed", "completedAt"})
       /\ MarkIncomplete(i, q) =>
            /\ getQuestionProgress(i, q)'.completed = FALSE
            /\ getQuestionProgress(i, q)'.completedAt = NoDate
            /\ OnlyFieldsChange(i, q, {"completed", "completedAt"})
       /\ \A c \in ConfidenceInputs :
            UpdateConfidence(i, q, c) =>
              /\ getQuestionProgress(i, q)'.confidenceLevel = c
              /\ OnlyFieldsChange(i, q, {"confidenceLevel"})]_vars

\* C28 witness: a question that was studied and rated is marked completed,
\* keeping its rating, its review count and its open session
C28_Witness ==
  \E i \in trackerMounted, q \in QuestionIds :
    LET r == getQuestionProgress(i, q)
    IN  /\ r.completed /\ r.completedAt = now
        /\ r.confidenceLevel \in ConfidenceInputs
        /\ r.reviewCount = 1
        /\ activeSession[i] # <<>> /\ activeSession[i][1].questionId = q

\* ---- Progress Tracker: weak areas
\* the positions in allQuestions of the questions tagged t
QuestionsTagged(t) ==
  {n \in 1..Len(allQuestions) : \E m \in 1..Len(allQuestions[n].tags) : allQuestions[n].tags[m] = t}

\* the tags of the question at position n
QuestionsTaggedBy(n) == {allQuestions[n].tags[m] : m \in 1..Len(allQuestions[n].tags)}

\* the confidence of the question at position n under the current paper
ConfidenceAt(i, n) == getQuestionProgress(i, QuestionIdOf(allQuestions[n])).confidenceLevel

\* C29: weakAreas is exactly the set of tags t of the paper for which more
\* than half of the questions tagged t have confidence 1 or 2; a tag whose
\* questions are all unrated is not in it.
C29_WeakAreas ==
  \A i \in trackerMounted :
    /\ getWeakAreas(i) =
         {t \in UNION {QuestionsTaggedBy(n) : n \in 1..Len(allQuestions)} :
            2 * Cardinality({n \in QuestionsTagged(t) : ConfidenceAt(i, n) \in {1, 2}})
              > Cardinality(QuestionsTagged(t))}
    /\ \A t \in getWeakAreas(i) : \E n \in QuestionsTagged(t) : ConfidenceAt(i, n) # 0

\* C29 witness: one tag is weak (both its questions rated 1 or 2) while
\* another, with one of its two questions rated low, is not
C29_Witness ==
  \E i \in trackerMounted :
    /\ getWeakAreas(i) = {"os"}
    /\ \E n \in QuestionsTagged("net") : ConfidenceAt(i, n) \in {1, 2}

\* ---- Progress Tracker: the range of confidenceLevel
\* C30: a quiz rating r in 1..10 is fed as round(r / 10 * 5), halves rounded
\* up, which is in 1..5; a star rating in 1..5 is fed unchanged; and after
\* every step the confidenceLevel of every record, in memory and stored, is
\* an integer in 0..5.
C30_ConfidenceInRange ==
  [][/\ \A i \in Trackers, q \in QuestionIds, r \in QuizRatings :
          handleRating(i, q, r) =>
            /\ getQuestionProgress(i, q)'.confidenceLevel = (r + 1) \div 2
            /\ getQuestionProgress(i, q)'.confidenceLevel \in 1..5
     /\ \A i \in Trackers, q \in QuestionIds, r \in StarRatings :
          StarRatingChange(i, q, r) => getQuestionProgress(i, q)'.confidenceLevel = r
     /\ \A i \in Trackers : \A p \in MapValues(questionProgress'[i]) : p.confidenceLevel \in 0..5
     /\ progressStore' # <<>> =>
          \A p \in MapValues(progressStore'[1]) : p.confidenceLevel \in 0..5]_vars

\* C30 witness: the quiz rating 7 (7 / 10 * 5 is a half) was fed as 4, and a
\* star rating of 5 as 5
C30_Witness ==
  \E i \in trackerMounted, q, s \in QuestionIds :
    /\ MapGet(quizRatings, q, 0) = 7
    /\ getQuestionProgress(i, q).confidenceLevel = 4
    /\ ratingStore[selectedPaperFile] # <<>>
    /\ MapGet(ratingStore[selectedPaperFile][1], s, 0) = 5
    /\ getQuestionProgress(i, s).confidenceLevel = 5
====
